---- MODULE Spec2Model ----
(***************************************************************************)
(* NaTrack-Back: the daily challenge batch (bot-challenges-daily.js), the  *)
(* daily bot sessions (bot-daily.js) and the request-time completion /     *)
(* object-card logic of app.js, over the tables of schema-bot-cards.sql.   *)
(*                                                                         *)
(* Dates 'YYYY-MM-DD' are day numbers (their string order is the day       *)
(* order).  Distances in the tables are whole meters; the two distance     *)
(* helpers take decimal values, written in units of 1/Fraction m.  A       *)
(* nullable column holds <<>> for NULL and <<v>> for the value v.  Every   *)
(* datastore query is one atomic step; the synchronous code between two    *)
(* awaits belongs to the step of the query that follows it.  Timestamps    *)
(* (created_at, completed_at, read_at, due_at) are left out: created_at is *)
(* the insertion order and read_at is a flag.  The day changes between     *)
(* batch runs, not within one.                                             *)
(*                                                                         *)
(* Spec lets requests interleave with a batch run, SpecSeq runs the        *)
(* handlers one at a time, SpecDaily runs the two scheduled scripts one at *)
(* a time with batch queries that may fail, SpecFn calls a pure helper     *)
(* alone.                                                                  *)
(***************************************************************************)
EXTENDS Integers, Sequences, FiniteSets, TLC

\* ------------------------------------------------------------------ bounds
MaxDay == 3               \* the last calendar day
MaxRuns == 2             \* batch runs, when the handlers run one at a time
MaxRunsInterleaved == 1  \* batch runs, when requests interleave with them
MaxSessions == 2         \* session-creation requests
MaxInFlight == 2         \* handlers under way at once
Fraction == 2100         \* decimal values are multiples of 1/Fraction
MaxFine == 12            \* the smallest decimal values tried: up to MaxFine/Fraction
MaxItems == 3            \* the longest list handed to pickWeighted
MaxWeight == 3           \* the largest weight handed to pickWeighted
MaxSeasons == 3          \* the season numbers of a seasons table
MaxDailyRuns == 1        \* runs of bot-daily.js

\* ------------------------------------------------------------- SQL values
NULL == <<>>
Some(v) == <<v>>
IsNull(x) == x = <<>>
\* JS Number(x) of a column value: Number(null) = 0
Number(x) == IF x = <<>> THEN 0 ELSE x[1]
\* the values Number() does not turn into a finite number: pairs, so that they
\* are no <<v>>
NaN == <<0, 0>>
Infinity == <<1, 0>>
\* Number.isFinite(Number(x))
IsFiniteNumber(x) == Len(x) <= 1

\* --------------------------------------------------------------- the roster
\* users WHERE is_bot = 0, in the order the SELECT returns them
Users == <<"u1", "u2">>
UserSet == {Users[i] : i \in 1..Len(Users)}

\* seasons(season_number, start_date)
Seasons == {[season_number |-> 1, start_date |-> 1],
            [season_number |-> 2, start_date |-> 3]}

\* users WHERE is_bot = 1, in the order the SELECT returns them
BotOrder == <<"bd", "br", "bz", "bs", "bg", "be", "bf", "bo", "bn", "bp">>
BotIds == {BotOrder[i] : i \in 1..Len(BotOrder)}

BotRow(id) ==
    CASE id = "bd" -> [id |-> id, bot_card_type |-> Some("defi"), bot_event_date |-> NULL,
                       bot_drop_rate |-> Some(2), bot_target_distance_m |-> NULL,
                       avg_distance_m |-> Some(10000), bot_season_int |-> NULL]
      [] id = "br" -> [id |-> id, bot_card_type |-> Some("rare"), bot_event_date |-> NULL,
                       bot_drop_rate |-> NULL, bot_target_distance_m |-> Some(6),
                       avg_distance_m |-> Some(5000), bot_season_int |-> Some(1)]
      [] id = "bz" -> [id |-> id, bot_card_type |-> Some("defi"), bot_event_date |-> NULL,
                       bot_drop_rate |-> Some(0), bot_target_distance_m |-> Some(0),
                       avg_distance_m |-> Some(8000), bot_season_int |-> Some(2)]
      [] id = "bs" -> [id |-> id, bot_card_type |-> Some("defi"), bot_event_date |-> NULL,
                       bot_drop_rate |-> Some(1), bot_target_distance_m |-> NULL,
                       avg_distance_m |-> Some(4000), bot_season_int |-> Some(2)]
      [] id = "bg" -> [id |-> id, bot_card_type |-> Some("defi"), bot_event_date |-> NULL,
                       bot_drop_rate |-> Some(-1), bot_target_distance_m |-> NULL,
                       avg_distance_m |-> Some(7000), bot_season_int |-> Some(1)]
      [] id = "be" -> [id |-> id, bot_card_type |-> Some("evenement"), bot_event_date |-> Some(1),
                       bot_drop_rate |-> Some(1), bot_target_distance_m |-> Some(900),
                       avg_distance_m |-> NULL, bot_season_int |-> NULL]
      [] id = "bf" -> [id |-> id, bot_card_type |-> Some("evenement"), bot_event_date |-> Some(1),
                       bot_drop_rate |-> Some(3), bot_target_distance_m |-> Some(4000),
                       avg_distance_m |-> NULL, bot_season_int |-> NULL]
      [] id = "bo" -> [id |-> id, bot_card_type |-> Some("objet"), bot_event_date |-> NULL,
                       bot_drop_rate |-> NULL, bot_target_distance_m |-> Some(5000),
                       avg_distance_m |-> NULL, bot_season_int |-> NULL]
      [] id = "bn" -> [id |-> id, bot_card_type |-> Some("objet"), bot_event_date |-> NULL,
                       bot_drop_rate |-> NULL, bot_target_distance_m |-> NULL,
                       avg_distance_m |-> Some(2000), bot_season_int |-> NULL]
      [] id = "bp" -> [id |-> id, bot_card_type |-> Some("objet"), bot_event_date |-> NULL,
                       bot_drop_rate |-> NULL, bot_target_distance_m |-> Some(9000),
                       avg_distance_m |-> NULL, bot_season_int |-> NULL]

\* bots.json, the list bot-daily.js reads: a bot by id, a bot by name that
\* swims, a bot without distance, and a name no bot has
BotList ==
    <<[id |-> Some("bd"), name |-> NULL, distance_m |-> Some(10000), type |-> NULL],
      [id |-> NULL, name |-> Some("be"), distance_m |-> Some(3000), type |-> Some("swim")],
      [id |-> Some("br"), name |-> NULL, distance_m |-> NULL, type |-> NULL],
      [id |-> NULL, name |-> Some("nobody"), distance_m |-> Some(2000), type |-> NULL]>>

\* ---------------------------------------------------------- pure helpers
\* Math.round: the nearest integer to num/den, halves up (den > 0)
Round(num, den) == (2 * num + den) \div (2 * den)

\* Math.round(b * m / (d * Fraction)) for b = q * Fraction + r, taken over q and r
\* so that no intermediate value leaves the integers of the tool: with
\* 2rm + d Fraction = a1 Fraction + a0, it is the floor of (2qm + a1) / (2d)
RoundScaled(b, m, d) ==
    LET q == b \div Fraction
        r == b % Fraction
    IN (2 * q * m + (2 * r * m + d * Fraction) \div Fraction) \div (2 * d)

\* Math.random() is k / RandomGrid for a k in 0..RandomGrid-1
RandomGrid == 100
RandomDraws == {0, RandomGrid - 1}

addDays(dateStr, days) == dateStr + days

\* mutant: the ratio is applied twice
jitterDistanceDoubled(baseMeters, ratioPct, k) ==
    IF ~IsFiniteNumber(baseMeters) \/ Number(baseMeters) <= 0 THEN NULL
    ELSE Some(RoundScaled(Number(baseMeters),
                          100 * RandomGrid + 4 * ratioPct * k - 2 * ratioPct * RandomGrid,
                          100 * RandomGrid))

\* mutant: the base is not tested
jitterDistanceUnchecked(baseMeters, ratioPct, k) ==
    Some(RoundScaled(Number(baseMeters),
                     100 * RandomGrid + 2 * ratioPct * k - ratioPct * RandomGrid,
                     100 * RandomGrid))

\* jitterDistance(baseMeters, ratio) with ratio = ratioPct / 100 and
\* Math.random() = k / RandomGrid; baseMeters is in units of 1/Fraction m, the
\* result is in whole meters; NULL when the base is not a finite positive number
jitterDistance(baseMeters, ratioPct, k) ==
    IF ~IsFiniteNumber(baseMeters) \/ Number(baseMeters) <= 0 THEN NULL
    ELSE Some(RoundScaled(Number(baseMeters),
                          100 * RandomGrid + 2 * ratioPct * k - ratioPct * RandomGrid,
                          100 * RandomGrid))

\* mutant: every value is taken to be in kilometers
normalizeMetersAlwaysKm(value) ==
    IF ~IsFiniteNumber(value) \/ Number(value) <= 0 THEN NULL
    ELSE Some(RoundScaled(Number(value), 1000, 1) * Fraction)

\* normalizeMeters(value): value and result are in units of 1/Fraction m
normalizeMeters(value) ==
    IF ~IsFiniteNumber(value) \/ Number(value) <= 0 THEN NULL
    ELSE IF Number(value) < 1000 * Fraction
         THEN Some(RoundScaled(Number(value), 1000, 1) * Fraction)
         ELSE value

\* a decimal column read as a number: whole meters, in units of 1/Fraction m
Decimal(x) == IF IsNull(x) THEN NULL ELSE Some(x[1] * Fraction)

\* mutant: the second value is taken when there is one
CoalesceSecond(a, b) == IF IsNull(b) THEN a ELSE b

\* bot_target_distance_m ?? avg_distance_m
Coalesce(a, b) == IF IsNull(a) THEN b ELSE a

SeqSum(s) ==
    LET RECURSIVE Sum(_)
        Sum(i) == IF i = 0 THEN 0 ELSE s[i] + Sum(i - 1)
    IN Sum(Len(s))

Max(a, b) == IF a >= b THEN a ELSE b

\* Math.max(0, Number(w) || 0) of a weight <<w>> or NaN
CoerceWeight(x) == IF x = NaN THEN 0 ELSE Max(0, Number(x))

\* a weight is Infinity: the total is Infinity, the draw Infinity or NaN, and
\* the remainder stays Infinity or NaN, which is never <= 0
HasInfinite(weights) == \E i \in 1..Len(weights) : weights[i] = Infinity

\* mutant: the walk stops only once the remainder is below zero
pickWeightedStrict(items, weights, roll2) ==
    LET w == [i \in 1..Len(items) |-> CoerceWeight(weights[i])]
        total == SeqSum(w)
        RECURSIVE Walk(_, _)
        Walk(i, left2) ==
            IF i > Len(items) THEN (IF Len(items) = 0 THEN NULL ELSE Some(items[Len(items)]))
            ELSE IF left2 - 2 * w[i] < 0 THEN Some(items[i])
            ELSE Walk(i + 1, left2 - 2 * w[i])
    IN IF total <= 0 THEN NULL ELSE Walk(1, roll2)

\* mutant: the first item is skipped by the walk
pickWeightedFromSecond(items, weights, roll2) ==
    LET w == [i \in 1..Len(items) |-> CoerceWeight(weights[i])]
        total == SeqSum(w)
        RECURSIVE Walk(_, _)
        Walk(i, left2) ==
            IF i > Len(items) THEN (IF Len(items) = 0 THEN NULL ELSE Some(items[Len(items)]))
            ELSE IF i > 1 /\ left2 - 2 * w[i] <= 0 THEN Some(items[i])
            ELSE Walk(i + 1, left2 - 2 * w[i])
    IN IF total <= 0 THEN NULL ELSE Walk(1, roll2)

\* mutant: a total of zero gives the last item
pickWeightedZeroTotal(items, weights, roll2) ==
    LET w == [i \in 1..Len(items) |-> CoerceWeight(weights[i])]
        total == SeqSum(w)
        RECURSIVE Walk(_, _)
        Walk(i, left2) ==
            IF i > Len(items) THEN (IF Len(items) = 0 THEN NULL ELSE Some(items[Len(items)]))
            ELSE IF left2 - 2 * w[i] <= 0 THEN Some(items[i])
            ELSE Walk(i + 1, left2 - 2 * w[i])
    IN IF HasInfinite(weights) THEN Some(items[Len(items)])
       ELSE IF total <= 0 THEN (IF Len(items) = 0 THEN NULL ELSE Some(items[Len(items)]))
       ELSE Walk(1, roll2)

\* pickWeighted(items, weightFn) for the draw Math.random() * total = roll2 / 2:
\* weights[i] is weightFn(items[i]); NULL when the total of the coerced weights
\* is <= 0
pickWeighted(items, weights, roll2) ==
    LET w == [i \in 1..Len(items) |-> CoerceWeight(weights[i])]
        total == SeqSum(w)
        RECURSIVE Walk(_, _)
        Walk(i, left2) ==
            IF i > Len(items) THEN (IF Len(items) = 0 THEN NULL ELSE Some(items[Len(items)]))
            ELSE IF left2 - 2 * w[i] <= 0 THEN Some(items[i])
            ELSE Walk(i + 1, left2 - 2 * w[i])
    IN IF HasInfinite(weights) THEN Some(items[Len(items)])
       ELSE IF total <= 0 THEN NULL ELSE Walk(1, roll2)

\* the draws Math.random() * total can take, in half units: [0, total)
Rolls(weights) ==
    LET total == SeqSum([i \in 1..Len(weights) |-> CoerceWeight(weights[i])])
    IN IF HasInfinite(weights) \/ total <= 0 THEN {0} ELSE 0..(2 * total - 1)

\* ------------------------------------------------------------------- state
VARIABLES
    today,          \* the calendar day (getLocalDateString())
    challenges,     \* user_challenges, in created_at order; a row's id is its index
    notifications,  \* notifications, in insertion order
    sessions,       \* sessions, in insertion order; a row's id is its index
    cardResults,    \* user_card_results, in insertion order
    batch,          \* the batch process: its position and the locals of main()
    req,            \* the session-creation requests in flight, per connection
    fn,             \* a call of one of the pure helpers: its arguments and result
    daily,          \* the bot-daily.js process: its position and the locals of main()
    responses       \* the answers the session routes have sent: [id, status, body]

vars == <<today, challenges, notifications, sessions, cardResults, batch, req, fn, daily,
          responses>>

\* no helper is called on its own
FnIdle == [op |-> "none", args |-> <<>>, done |-> TRUE, out |-> NULL]

Procs == {1, 2}

\* the (date, distance) bodies a client posts
SessionInputs == {<<1, 4000>>, <<2, 9000>>}

BatchIdle == [pc |-> "idle", today |-> 0, activeSeason |-> NULL, usedBots |-> {},
              dailyEventBot |-> NULL, idx |-> 0, active |-> NULL, bot |-> NULL,
              targetDistance |-> 0, type |-> "defi", challengeId |-> 0, runs |-> 0,
              startActive |-> [u \in UserSet |-> 0], startLen |-> 0, startNotifs |-> 0,
              \* the exit status of the last run (-1: none yet, or under way), the
              \* user it failed at, and history: the sessions table as the run found
              \* it, the session rows the batch has written
              exitCode |-> -1, failedIdx |-> 0, startSessions |-> 0, written |-> {}]

\* bot-daily.js is not running
DailyIdle == [pc |-> "idle", today |-> 0, idx |-> 0, userId |-> NULL, type |-> "run",
              distance |-> 0, runs |-> 0]

ReqIdle == [pc |-> "idle", userId |-> "u1", sessionId |-> 0, sessionDate |-> 0,
            distance |-> 0, challenge |-> NULL, completed |-> NULL, bots |-> <<>>]

\* a challenge a user holds when the model starts: none, one still running, one overdue
InitialChallenge(u, k) ==
    IF (k = "running") = (u = "u1")
    THEN [user_id |-> u, bot_id |-> "bd", type |-> "defi", status |-> "active",
          target_distance_m |-> 8500,
          start_date |-> IF k = "running" THEN -1 ELSE -4,
          due_date |-> IF k = "running" THEN 2 ELSE -1,
          completed_session_id |-> NULL]
    ELSE [user_id |-> u, bot_id |-> "br", type |-> "rare", status |-> "active",
          target_distance_m |-> 5100,
          start_date |-> IF k = "running" THEN -1 ELSE -4,
          due_date |-> IF k = "running" THEN 2 ELSE -1,
          completed_session_id |-> NULL]

InitialChallenges ==
    {<<>>, <<InitialChallenge("u1", "running"), InitialChallenge("u2", "overdue")>>}

Init ==
    /\ today = 0
    /\ challenges \in InitialChallenges
    /\ notifications = <<>>
    /\ sessions = <<>>
    /\ cardResults = <<>>
    /\ batch = BatchIdle
    /\ req = [p \in Procs |-> ReqIdle]
    /\ fn = FnIdle
    /\ daily = DailyIdle
    /\ responses = {}

\* ------------------------------------------------- the batch: main(), set-up
\* ... WHERE user_id = ? AND status = 'active' ORDER BY created_at DESC LIMIT 1
ActiveIds(rows, u) ==
    {i \in 1..Len(rows) : rows[i].user_id = u /\ rows[i].status = "active"}

MostRecentActive(rows, u) ==
    IF ActiveIds(rows, u) = {} THEN 0
    ELSE CHOOSE i \in ActiveIds(rows, u) : \A j \in ActiveIds(rows, u) : j <= i

\* mutant: the seasons that have not started count as well
SeasonResolverAnyStart(seasons, day) ==
    LET Later(a, b) == \/ a.start_date > b.start_date
                       \/ a.start_date = b.start_date /\ a.season_number >= b.season_number
    IN IF seasons = {} THEN NULL
       ELSE Some((CHOOSE s \in seasons : \A t \in seasons : Later(s, t)).season_number)

\* SELECT season_number FROM seasons WHERE start_date <= ?
\*   ORDER BY start_date DESC, season_number DESC LIMIT 1
SeasonResolverOf(seasons, day) ==
    LET started == {s \in seasons : s.start_date <= day}
        Later(a, b) == \/ a.start_date > b.start_date
                       \/ a.start_date = b.start_date /\ a.season_number >= b.season_number
    IN IF started = {} THEN NULL
       ELSE Some((CHOOSE s \in started : \A t \in started : Later(s, t)).season_number)

\* the season of a day, over the seasons table of the model
SeasonResolver(day) == SeasonResolverOf(Seasons, day)

\* mutant: the bots are loaded whatever their season
SeasonEligibleAny(b, activeSeason) == TRUE

\* the WHERE clause of botsSql
SeasonEligible(b, activeSeason) ==
    IF ~IsNull(activeSeason)
    THEN IsNull(b.bot_season_int) \/ b.bot_season_int[1] <= activeSeason[1]
    ELSE IsNull(b.bot_season_int)

LoadBots(activeSeason) ==
    SelectSeq([i \in 1..Len(BotOrder) |-> BotRow(BotOrder[i])],
              LAMBDA b : SeasonEligible(b, activeSeason))

IsEventBot(b, day) ==
    /\ b.bot_card_type = Some("evenement")
    /\ b.bot_event_date = Some(day)
    /\ Number(b.bot_target_distance_m) > 0

IsChallengeBot(b) ==
    /\ b.bot_card_type \in {Some("defi"), Some("rare")}
    /\ Number(b.avg_distance_m) > 0

eventBots(day, activeSeason) ==
    SelectSeq(LoadBots(activeSeason), LAMBDA b : IsEventBot(b, day))

challengeBots(activeSeason) ==
    SelectSeq(LoadBots(activeSeason), IsChallengeBot)

\* mutant: only the challenges still active count
LoadUsedBotsActive(rows, day) ==
    {rows[i].bot_id : i \in {j \in 1..Len(rows) : /\ rows[j].start_date = day
                                                   /\ rows[j].status = "active"}}

\* SELECT DISTINCT bot_id FROM user_challenges WHERE start_date = ?
LoadUsedBots(rows, day) ==
    {rows[i].bot_id : i \in {j \in 1..Len(rows) : rows[j].start_date = day}}

\* Number(b.bot_drop_rate) || 1
DropRateOrOne(b) ==
    IF Number(b.bot_drop_rate) = 0 THEN 1 ELSE Number(b.bot_drop_rate)

\* the weight function of the challenge draw, in quarters:
\* base * seasonBoost (1.5 | 1) * rarePenalty (0.5 | 1)
ChallengeWeight4(b, activeSeason) ==
    LET base == DropRateOrOne(b)
        seasonBoost2 == IF ~IsNull(activeSeason) /\ b.bot_season_int = activeSeason
                        THEN 3 ELSE 2
        rarePenalty2 == IF b.bot_card_type = Some("rare") THEN 1 ELSE 2
    IN base * seasonBoost2 * rarePenalty2

\* the values weightFn returns for the items
WeightsOf(items, W(_)) == [i \in 1..Len(items) |-> Some(W(items[i]))]

BatchStart ==
    /\ batch.pc = "idle"
    /\ batch.runs < MaxRuns
    /\ LET activeSeason == SeasonResolver(today)
           ev == eventBots(today, activeSeason)
           evW == WeightsOf(ev, DropRateOrOne)
       IN \E roll2 \in Rolls(evW) :
            batch' = [BatchIdle EXCEPT
                        !.pc = "loop",
                        !.today = today,
                        !.activeSeason = activeSeason,
                        !.usedBots = LoadUsedBots(challenges, today),
                        !.dailyEventBot = IF Len(ev) > 0 THEN pickWeighted(ev, evW, roll2)
                                          ELSE NULL,
                        !.idx = 1,
                        !.runs = batch.runs + 1,
                        \* history: the tables as the run found them
                        !.startActive = [u \in UserSet |-> MostRecentActive(challenges, u)],
                        !.startLen = Len(challenges),
                        !.startNotifs = Len(notifications),
                        !.startSessions = Len(sessions),
                        !.written = batch.written]
    /\ UNCHANGED <<responses, fn, daily, today, challenges, notifications, sessions, cardResults, req>>

\* ------------------------------------------------ the batch: per-user loop
CurrentUser == Users[batch.idx]

\* active && active.due_date < today
IsOverdue(active, day) == ~IsNull(active) /\ active[1].due_date < day

\* mutant: a challenge due today no longer counts
IsStillValidStrict(active, day) == ~IsNull(active) /\ active[1].due_date > day

\* active && active.due_date >= today
IsStillValid(active, day) == ~IsNull(active) /\ active[1].due_date >= day

NextUser(b) ==
    [b EXCEPT !.pc = "loop", !.idx = b.idx + 1, !.active = NULL, !.bot = NULL,
              !.targetDistance = 0, !.type = "defi", !.challengeId = 0]

\* the row the SELECT of the loop head returns
SelectedActive(rows, u) ==
    LET id == MostRecentActive(rows, u)
    IN IF id = 0 THEN NULL ELSE Some([id |-> id, due_date |-> rows[id].due_date])

\* the loop head, when the code goes on to expire or to assign
BatchSelectActive ==
    /\ batch.pc = "loop"
    /\ batch.idx <= Len(Users)
    /\ LET active == SelectedActive(challenges, CurrentUser)
       IN /\ ~(IsNull(batch.dailyEventBot) /\ IsStillValid(active, batch.today))
          /\ batch' = [batch EXCEPT !.pc = "selected", !.active = active]
    /\ UNCHANGED <<responses, fn, daily, today, challenges, notifications, sessions, cardResults, req>>

\* the loop head, when the user holds a valid challenge and there is no event: continue
BatchSkipUser ==
    /\ batch.pc = "loop"
    /\ batch.idx <= Len(Users)
    /\ LET active == SelectedActive(challenges, CurrentUser)
       IN /\ IsNull(batch.dailyEventBot) /\ IsStillValid(active, batch.today)
          /\ batch' = NextUser(batch)
    /\ UNCHANGED <<responses, fn, daily, today, challenges, notifications, sessions, cardResults, req>>

\* mutant: the UPDATE matches no row
ExpireChallengeLost(rows, id) == rows

\* mutant: the row is closed as if its goal had been met
ExpireChallengeAsCompleted(rows, id) == [rows EXCEPT ![id].status = "completed"]

\* mutant: the row is closed under another status
ExpireChallengeCancelled(rows, id) == [rows EXCEPT ![id].status = "cancelled"]

\* UPDATE user_challenges SET status = 'expired' WHERE id = ?
ExpireChallenge(rows, id) == [rows EXCEPT ![id].status = "expired"]

\* if (active && active.due_date < today) UPDATE ...
BatchExpireOverdue ==
    /\ batch.pc = "selected"
    /\ IsOverdue(batch.active, batch.today)
    /\ challenges' = ExpireChallenge(challenges, batch.active[1].id)
    /\ batch' = [batch EXCEPT !.pc = "assign"]
    /\ UNCHANGED <<responses, fn, daily, today, notifications, sessions, cardResults, req>>

\* if (dailyEventBot && active && active.due_date >= today) UPDATE ...
BatchExpireOverride ==
    /\ batch.pc = "selected"
    /\ ~IsOverdue(batch.active, batch.today)
    /\ ~IsNull(batch.dailyEventBot) /\ IsStillValid(batch.active, batch.today)
    /\ challenges' = ExpireChallenge(challenges, batch.active[1].id)
    /\ batch' = [batch EXCEPT !.pc = "assign"]
    /\ UNCHANGED <<responses, fn, daily, today, notifications, sessions, cardResults, req>>

\* the code is at "let bot = null": no update is left to run before the draw
AtAssign ==
    \/ batch.pc = "assign"
    \/ batch.pc = "selected" /\ IsNull(batch.active)

availableChallengeBots(activeSeason, usedBots) ==
    SelectSeq(challengeBots(activeSeason), LAMBDA b : b.id \notin usedBots)

\* mutant: the event keeps the three-day deadline of a challenge
DrawEventThreeDays(b) ==
    [bot |-> b.dailyEventBot,
     targetDistance |-> Some(Number(b.dailyEventBot[1].bot_target_distance_m)),
     type |-> "evenement", dueDate |-> addDays(b.today, 3)]

\* mutant: the event distance goes through normalizeMeters
DrawEventNormalized(b) ==
    [bot |-> b.dailyEventBot,
     targetDistance |->
         Some(normalizeMeters(Decimal(b.dailyEventBot[1].bot_target_distance_m))[1]
                \div Fraction),
     type |-> "evenement", dueDate |-> b.today]

\* the outcome of the draw for one user: [bot, targetDistance, type, dueDate], with
\* bot = NULL or targetDistance = NULL when the code takes a "continue"
DrawEvent(b) ==
    [bot |-> b.dailyEventBot,
     targetDistance |-> Some(Number(b.dailyEventBot[1].bot_target_distance_m)),
     type |-> "evenement", dueDate |-> b.today]

DrawChallenge(b, roll2, k) ==
    LET avail == availableChallengeBots(b.activeSeason, b.usedBots)
        bot == pickWeighted(avail,
                            WeightsOf(avail, LAMBDA x : ChallengeWeight4(x, b.activeSeason)),
                            roll2)
    IN IF IsNull(bot)
       THEN [bot |-> NULL, targetDistance |-> NULL, type |-> "defi",
             dueDate |-> addDays(b.today, 3)]
       ELSE [bot |-> bot,
             targetDistance |->
                 jitterDistance(normalizeMeters(Decimal(Coalesce(bot[1].bot_target_distance_m,
                                                                 bot[1].avg_distance_m))),
                                15, k),
             type |-> IF IsNull(bot[1].bot_card_type) THEN "defi" ELSE bot[1].bot_card_type[1],
             dueDate |-> addDays(b.today, 3)]

Draws(b) ==
    IF ~IsNull(b.dailyEventBot) THEN {DrawEvent(b)}
    ELSE LET avail == availableChallengeBots(b.activeSeason, b.usedBots)
         IN IF Len(avail) = 0
            THEN {[bot |-> NULL, targetDistance |-> NULL, type |-> "defi",
                   dueDate |-> addDays(b.today, 3)]}
            ELSE {DrawChallenge(b, roll2, k) :
                    roll2 \in Rolls(WeightsOf(avail,
                                    LAMBDA x : ChallengeWeight4(x, b.activeSeason))),
                    k \in RandomDraws}

\* if (!bot || !targetDistance) continue
DrawFails(d) == IsNull(d.bot) \/ Number(d.targetDistance) = 0

\* mutant: the drawn bot is not recorded
MarkUsedForgotten(usedBots, d) == usedBots

\* if (type !== "evenement") usedBots.add(String(bot.id))
MarkUsed(usedBots, d) ==
    IF d.type # "evenement" THEN usedBots \cup {d.bot[1].id} ELSE usedBots

NewChallenge(u, d, day) ==
    [user_id |-> u, bot_id |-> d.bot[1].id, type |-> d.type, status |-> "active",
     target_distance_m |-> d.targetDistance[1], start_date |-> day, due_date |-> d.dueDate,
     completed_session_id |-> NULL]

\* the draw, then INSERT INTO user_challenges ...
BatchInsertChallenge ==
    /\ AtAssign
    /\ \E d \in Draws(batch) :
         /\ ~DrawFails(d)
         /\ challenges' = Append(challenges, NewChallenge(CurrentUser, d, batch.today))
         /\ batch' = [batch EXCEPT !.pc = "notify",
                                   !.bot = d.bot,
                                   !.targetDistance = d.targetDistance[1],
                                   !.type = d.type,
                                   !.usedBots = MarkUsed(batch.usedBots, d),
                                   !.challengeId = Len(challenges) + 1]
    /\ UNCHANGED <<responses, fn, daily, today, notifications, sessions, cardResults, req>>

\* mutant: the drawn bot is recorded before the continue
ContinueMarked(b, d) ==
    [NextUser(b) EXCEPT !.usedBots = IF IsNull(d.bot) THEN @ ELSE @ \cup {d.bot[1].id}]

\* the continue of line 200 comes before usedBots.add: the set is as it was
Continue(b, d) == NextUser(b)

\* the draw gives no bot or no target: continue
BatchNoAssign ==
    /\ AtAssign
    /\ \E d \in Draws(batch) : DrawFails(d) /\ batch' = Continue(batch, d)
    /\ UNCHANGED <<responses, fn, daily, today, challenges, notifications, sessions, cardResults, req>>

\* mutant: every notification announces a challenge
createNotificationAsChallenge(rows, userId, type, botId, challengeId) ==
    Append(rows, [user_id |-> userId, type |-> "challenge_start", bot_id |-> botId,
                  challenge_id |-> challengeId, read |-> FALSE])

\* createNotification(pool, user.id, {type, ..., meta: {bot_id, challenge_id}})
createNotification(rows, userId, type, botId, challengeId) ==
    Append(rows, [user_id |-> userId, type |-> type, bot_id |-> botId,
                  challenge_id |-> challengeId, read |-> FALSE])

BatchNotify ==
    /\ batch.pc = "notify"
    /\ notifications' =
         createNotification(notifications, CurrentUser,
                            IF batch.type = "evenement" THEN "event_start"
                            ELSE "challenge_start",
                            batch.bot[1].id, batch.challengeId)
    /\ batch' = [batch EXCEPT !.pc = "ensure"]
    /\ UNCHANGED <<responses, fn, daily, today, challenges, sessions, cardResults, req>>

\* mutant: only a session of type "run" counts
HasSessionOnRun(rows, userId, dateStr) ==
    \E i \in 1..Len(rows) :
        rows[i].user_id = userId /\ rows[i].date = dateStr /\ rows[i].type = "run"

\* SELECT id FROM sessions WHERE user_id = ? AND date = ? LIMIT 1
HasSessionOn(rows, userId, dateStr) ==
    \E i \in 1..Len(rows) : rows[i].user_id = userId /\ rows[i].date = dateStr

\* ensureBotSession: the bot has a session that day already (or no valid distance)
BatchEnsureFound ==
    /\ batch.pc = "ensure"
    /\ \/ batch.targetDistance <= 0
       \/ HasSessionOn(sessions, batch.bot[1].id, batch.today)
    /\ batch' = NextUser(batch)
    /\ UNCHANGED <<responses, fn, daily, today, challenges, notifications, sessions, cardResults, req>>

\* ensureBotSession: the SELECT finds no row
BatchEnsureMissing ==
    /\ batch.pc = "ensure"
    /\ batch.targetDistance > 0
    /\ ~HasSessionOn(sessions, batch.bot[1].id, batch.today)
    /\ batch' = [batch EXCEPT !.pc = "ensureInsert"]
    /\ UNCHANGED <<responses, fn, daily, today, challenges, notifications, sessions, cardResults, req>>

InsertSession(rows, userId, dateStr, distance, type) ==
    Append(rows, [user_id |-> userId, date |-> dateStr, distance |-> distance, type |-> type])

\* ensureBotSession: INSERT INTO sessions ... "run"
BatchEnsureInsert ==
    /\ batch.pc = "ensureInsert"
    /\ sessions' = InsertSession(sessions, batch.bot[1].id, batch.today,
                                 batch.targetDistance, "run")
    /\ batch' = [NextUser(batch) EXCEPT !.written = batch.written \cup {Len(sessions) + 1}]
    /\ UNCHANGED <<responses, fn, daily, today, challenges, notifications, cardResults, req>>

\* the loop is over: pool.end(), exit 0
BatchFinish ==
    /\ batch.pc = "loop"
    /\ batch.idx > Len(Users)
    /\ batch' = [BatchIdle EXCEPT !.runs = batch.runs, !.written = batch.written,
                                   !.exitCode = 0]
    /\ UNCHANGED <<responses, fn, daily, today, challenges, notifications, sessions, cardResults, req>>

\* ------------------------------------------ the batch: a query that fails
\* the step the run is at sends a query to the datastore
QueryPending ==
    \/ batch.pc = "loop" /\ batch.idx <= Len(Users)
    \/ batch.pc = "selected" /\ ~IsNull(batch.active)
    \/ AtAssign /\ \E d \in Draws(batch) : ~DrawFails(d)
    \/ batch.pc \in {"notify", "ensure", "ensureInsert"}

\* mutant: the error is caught inside the loop, which goes on with the next user
AbortSwallowed(b, k) == [NextUser(b) EXCEPT !.failedIdx = k]

\* the rejection leaves the try block: finally pool.end(), then the catch of
\* main() logs and calls process.exit(1)
Abort(b, k) ==
    [BatchIdle EXCEPT !.runs = b.runs, !.written = b.written, !.exitCode = 1,
                      !.failedIdx = k]

\* pool.query rejects in the loop: the query has changed nothing
BatchFail ==
    /\ QueryPending
    /\ batch' = Abort(batch, batch.idx)
    /\ UNCHANGED <<responses, fn, daily, today, challenges, notifications, sessions, cardResults, req>>

\* pool.query rejects in the set-up, before the first user
BatchFailSetup ==
    /\ batch.pc = "idle"
    /\ batch.runs < MaxRuns
    /\ batch' = Abort([batch EXCEPT !.runs = batch.runs + 1], 0)
    /\ UNCHANGED <<responses, fn, daily, today, challenges, notifications, sessions, cardResults, req>>

\* --------------------------------------- app.js: POST /me/sessions and helpers
HumanSessions(rows) == {i \in 1..Len(rows) : rows[i].user_id \in UserSet}

\* the route up to INSERT INTO sessions ...: the body is valid (validateDistance > 0)
ReqInsertSession(p, u, date, distNum) ==
    /\ req[p].pc = "idle"
    /\ \A q \in Procs : q < p => req[q].pc # "idle"
    /\ Cardinality(HumanSessions(sessions)) < MaxSessions
    /\ sessions' = InsertSession(sessions, u, date, distNum, "swim")
    /\ req' = [req EXCEPT ![p] = [ReqIdle EXCEPT !.pc = "getActive", !.userId = u,
                                                 !.sessionId = Len(sessions) + 1,
                                                 !.sessionDate = date,
                                                 !.distance = distNum]]
    /\ UNCHANGED <<responses, fn, daily, today, challenges, notifications, cardResults, batch>>

\* getActiveChallenge(userId)
getActiveChallenge(rows, userId) ==
    LET id == MostRecentActive(rows, userId)
    IN IF id = 0 THEN NULL
       ELSE Some([id |-> id, bot_id |-> rows[id].bot_id, type |-> rows[id].type,
                  target_distance_m |-> rows[id].target_distance_m,
                  start_date |-> rows[id].start_date, due_date |-> rows[id].due_date])

\* mutant: the last day of the window is left out
isDateBetweenBeforeEnd(dateStr, startStr, endStr) == dateStr >= startStr /\ dateStr < endStr

\* mutant: the window has no end
isDateBetweenOpenEnded(dateStr, startStr, endStr) == dateStr >= startStr

isDateBetween(dateStr, startStr, endStr) == dateStr >= startStr /\ dateStr <= endStr

\* mutant: the distance is not compared with the target of the challenge
QualifiesAnyDistance(challenge, sessionDate, distance) ==
    /\ ~IsNull(challenge)
    /\ isDateBetween(sessionDate, challenge[1].start_date, challenge[1].due_date)

\* the three early returns of handleChallengeCompletion before its UPDATE
Qualifies(challenge, sessionDate, distance) ==
    /\ ~IsNull(challenge)
    /\ isDateBetween(sessionDate, challenge[1].start_date, challenge[1].due_date)
    /\ ~(distance < challenge[1].target_distance_m)

\* mutant: the threshold is not compared with the distance
ObjectBotsAnyDistance(distance) ==
    SelectSeq([i \in 1..Len(BotOrder) |-> BotRow(BotOrder[i])],
              LAMBDA b : /\ b.bot_card_type = Some("objet")
                         /\ ~IsNull(b.bot_target_distance_m))

\* SELECT ... FROM users WHERE is_bot = 1 AND bot_card_type = 'objet'
\*   AND bot_target_distance_m IS NOT NULL AND bot_target_distance_m <= ?
ObjectBots(distance) ==
    SelectSeq([i \in 1..Len(BotOrder) |-> BotRow(BotOrder[i])],
              LAMBDA b : /\ b.bot_card_type = Some("objet")
                         /\ ~IsNull(b.bot_target_distance_m)
                         /\ b.bot_target_distance_m[1] <= distance)

\* res.status(201).json({id, ..., challenge_completed, challenge})
Response(r) ==
    [id |-> r.sessionId,
     challenge_completed |-> ~IsNull(r.completed),
     challenge |-> IF IsNull(r.completed) THEN NULL
                   ELSE Some([id |-> r.completed[1].id,
                              bot_id |-> r.completed[1].bot_id,
                              type |-> r.completed[1].type,
                              target_distance_m |-> r.completed[1].target_distance_m,
                              due_date |-> r.completed[1].due_date])]

\* mutant: the answer reports the challenge the SELECT returned
RespondWithSelected(p, completed) ==
    responses' =
        IF req'[p].pc = "idle"
        THEN responses \cup {[id |-> req[p].sessionId, status |-> 201,
                               body |-> Some(Response([req[p] EXCEPT
                                                          !.completed = req[p].challenge]))]}
        ELSE responses

\* the route answers 201 once handleObjectCards has returned: the request p is
\* over after this step, and handleChallengeCompletion had returned `completed`
Respond(p, completed) ==
    responses' =
        IF req'[p].pc = "idle"
        THEN responses \cup {[id |-> req[p].sessionId, status |-> 201,
                               body |-> Some(Response([req[p] EXCEPT
                                                          !.completed = completed]))]}
        ELSE responses

\* handleChallengeCompletion has returned `completed`: handleObjectCards reads the
\* object bots (the roster does not change, so its SELECT is part of this step) and
\* either has cards to insert or returns 0, and then the route answers
ToObjectCards(r, completed) ==
    IF ObjectBots(r.distance) = <<>> THEN ReqIdle
    ELSE [r EXCEPT !.pc = "grant", !.completed = completed,
                   !.bots = ObjectBots(r.distance)]

\* handleChallengeCompletion: the SELECT, and the session passes the checks
ReqGetActive(p) ==
    /\ req[p].pc = "getActive"
    /\ LET challenge == getActiveChallenge(challenges, req[p].userId)
       IN /\ Qualifies(challenge, req[p].sessionDate, req[p].distance)
          /\ req' = [req EXCEPT ![p].pc = "update", ![p].challenge = challenge]
    /\ UNCHANGED <<responses, fn, daily, today, challenges, notifications, sessions, cardResults, batch>>

\* handleChallengeCompletion: the SELECT, and one of the early returns (null)
ReqNoCompletion(p) ==
    /\ req[p].pc = "getActive"
    /\ LET challenge == getActiveChallenge(challenges, req[p].userId)
       IN /\ ~Qualifies(challenge, req[p].sessionDate, req[p].distance)
          /\ req' = [req EXCEPT ![p] = ToObjectCards([req[p] EXCEPT !.challenge = challenge],
                                                     NULL)]
    /\ Respond(p, NULL)
    /\ UNCHANGED <<fn, daily, today, challenges, notifications, sessions, cardResults, batch>>

\* UPDATE user_challenges SET status = 'completed', completed_at = NOW(),
\*   completed_session_id = ? WHERE id = ? AND status = 'active'
CompleteChallenge(rows, id, sessionId) ==
    IF rows[id].status = "active"
    THEN [rows EXCEPT ![id].status = "completed",
                      ![id].completed_session_id = Some(sessionId)]
    ELSE rows

\* mutant: the UPDATE is taken to have matched whatever the status
AffectedRowsAlways(rows, id) == 1

\* result.affectedRows of that UPDATE
AffectedRows(rows, id) == IF rows[id].status = "active" THEN 1 ELSE 0

\* the conditional UPDATE; if (result.affectedRows === 0) return null
ReqUpdate(p) ==
    /\ req[p].pc = "update"
    /\ challenges' = CompleteChallenge(challenges, req[p].challenge[1].id,
                                       req[p].sessionId)
    /\ req' = [req EXCEPT ![p] = IF AffectedRows(challenges, req[p].challenge[1].id) = 0
                                 THEN ToObjectCards(req[p], NULL)
                                 ELSE [req[p] EXCEPT !.pc = "card"]]
    /\ Respond(p, NULL)
    /\ UNCHANGED <<fn, daily, today, notifications, sessions, cardResults, batch>>

\* mutant: distance_m and target_distance_m change places
InsertCardResultSwapped(rows, userId, botId, type, distance, target, sessionId, achievedAt) ==
    Append(rows, [user_id |-> userId, bot_id |-> botId, type |-> type,
                  distance_m |-> target, target_distance_m |-> distance,
                  session_id |-> sessionId, achieved_at |-> achievedAt])

\* INSERT INTO user_card_results (...)
InsertCardResult(rows, userId, botId, type, distance, target, sessionId, achievedAt) ==
    Append(rows, [user_id |-> userId, bot_id |-> botId, type |-> type,
                  distance_m |-> distance, target_distance_m |-> target,
                  session_id |-> sessionId, achieved_at |-> achievedAt])

ReqCard(p) ==
    /\ req[p].pc = "card"
    /\ cardResults' = InsertCardResult(cardResults, req[p].userId,
                                       req[p].challenge[1].bot_id, req[p].challenge[1].type,
                                       req[p].distance, req[p].challenge[1].target_distance_m,
                                       req[p].sessionId, req[p].sessionDate)
    /\ req' = [req EXCEPT ![p].pc = "success"]
    /\ UNCHANGED <<responses, fn, daily, today, challenges, notifications, sessions, batch>>

ReqSuccessNotification(p) ==
    /\ req[p].pc = "success"
    /\ notifications' =
         createNotification(notifications, req[p].userId,
                            IF req[p].challenge[1].type = "evenement" THEN "event_success"
                            ELSE "challenge_success",
                            req[p].challenge[1].bot_id, req[p].challenge[1].id)
    /\ req' = [req EXCEPT ![p].pc = "markRead"]
    /\ UNCHANGED <<responses, fn, daily, today, challenges, sessions, cardResults, batch>>

\* mutant: every unread notification of the user is marked
MarkStartReadAnyType(rows, userId) ==
    [i \in 1..Len(rows) |->
        IF rows[i].user_id = userId /\ ~rows[i].read
        THEN [rows[i] EXCEPT !.read = TRUE]
        ELSE rows[i]]

\* UPDATE notifications SET read_at = NOW() WHERE user_id = ? AND read_at IS NULL
\*   AND type IN ('challenge_start','event_start')
MarkStartRead(rows, userId) ==
    [i \in 1..Len(rows) |->
        IF /\ rows[i].user_id = userId
           /\ ~rows[i].read
           /\ rows[i].type \in {"challenge_start", "event_start"}
        THEN [rows[i] EXCEPT !.read = TRUE]
        ELSE rows[i]]

\* the last statement of handleChallengeCompletion; it returns the challenge
ReqMarkRead(p) ==
    /\ req[p].pc = "markRead"
    /\ notifications' = MarkStartRead(notifications, req[p].userId)
    /\ req' = [req EXCEPT ![p] = ToObjectCards(req[p], req[p].challenge)]
    /\ Respond(p, req[p].challenge)
    /\ UNCHANGED <<fn, daily, today, challenges, sessions, cardResults, batch>>

\* handleObjectCards: one INSERT of the loop; after the last one the route answers
ReqGrant(p) ==
    /\ req[p].pc = "grant"
    /\ LET bot == Head(req[p].bots)
       IN cardResults' = InsertCardResult(cardResults, req[p].userId, bot.id,
                                          bot.bot_card_type[1], req[p].distance,
                                          bot.bot_target_distance_m[1],
                                          req[p].sessionId, req[p].sessionDate)
    /\ req' = [req EXCEPT ![p] = IF Len(req[p].bots) = 1 THEN ReqIdle
                                 ELSE [req[p] EXCEPT !.bots = Tail(req[p].bots)]]
    /\ Respond(p, req[p].completed)
    /\ UNCHANGED <<fn, daily, today, challenges, notifications, sessions, batch>>

\* mutant: the error undoes what the request wrote: its session row and the
\* completion it made
ReqFailRollback(p) ==
    /\ req[p].pc \in {"getActive", "update", "card", "success", "markRead", "grant"}
    /\ req' = [req EXCEPT ![p] = ReqIdle]
    /\ responses' = responses \cup {[id |-> req[p].sessionId, status |-> 500,
                                     body |-> NULL]}
    /\ sessions' = [sessions EXCEPT ![req[p].sessionId].distance = 0]
    /\ challenges' =
         [i \in 1..Len(challenges) |->
            IF challenges[i].completed_session_id = Some(req[p].sessionId)
            THEN [challenges[i] EXCEPT !.status = "active", !.completed_session_id = NULL]
            ELSE challenges[i]]
    /\ UNCHANGED <<fn, daily, today, notifications, cardResults, batch>>

\* a query of handleChallengeCompletion or of handleObjectCards rejects: the
\* route's catch answers 500; nothing that was written before is taken back
ReqFail(p) ==
    /\ req[p].pc \in {"getActive", "update", "card", "success", "markRead", "grant"}
    /\ req' = [req EXCEPT ![p] = ReqIdle]
    /\ responses' = responses \cup {[id |-> req[p].sessionId, status |-> 500,
                                     body |-> NULL]}
    /\ UNCHANGED <<fn, daily, today, challenges, notifications, sessions, cardResults, batch>>

\* ------------------------- app.js: PUT /me/sessions/:id, DELETE /me/sessions/:id
\* the place of a row that DELETE removed: ids are not given out again
NoRow == [user_id |-> "none", date |-> 0, distance |-> 0, type |-> "none"]

\* the fields a client may send to PUT: each one is optional, one at least is
\* there, and each passes its check (validateDistance, isValidType)
PutInputs ==
    {b \in [date : {NULL, Some(1), Some(2)},
            distance : {NULL, Some(4000), Some(9000)},
            type : {NULL, Some("run")}] :
        ~(IsNull(b.date) /\ IsNull(b.distance) /\ IsNull(b.type))}

\* UPDATE sessions SET <the fields sent> WHERE id = ? AND user_id = ?
UpdateSession(rows, id, userId, body) ==
    IF id \in 1..Len(rows) /\ rows[id].user_id = userId
    THEN [rows EXCEPT ![id] =
            [user_id |-> userId,
             date |-> IF IsNull(body.date) THEN rows[id].date ELSE body.date[1],
             distance |-> IF IsNull(body.distance) THEN rows[id].distance
                          ELSE body.distance[1],
             type |-> IF IsNull(body.type) THEN rows[id].type ELSE body.type[1]]]
    ELSE rows

\* DELETE FROM sessions WHERE id = ? AND user_id = ?
DeleteSession(rows, id, userId) ==
    IF id \in 1..Len(rows) /\ rows[id].user_id = userId
    THEN [rows EXCEPT ![id] = NoRow]
    ELSE rows

\* PUT /me/sessions/:id, the whole route: one UPDATE of sessions, nothing else
ReqPutSession(u, id, body) ==
    /\ sessions' = UpdateSession(sessions, id, u, body)
    /\ UNCHANGED <<responses, fn, daily, today, challenges, notifications, cardResults, batch, req>>

\* DELETE /me/sessions/:id, the whole route: one DELETE on sessions, nothing else
ReqDeleteSession(u, id) ==
    /\ sessions' = DeleteSession(sessions, id, u)
    /\ UNCHANGED <<responses, fn, daily, today, challenges, notifications, cardResults, batch, req>>

\* ------------------------------------------------------ scripts/bot-daily.js
\* normalizeType: "swim" stays, anything else and nothing is "run"
normalizeType(input) == IF input = Some("swim") THEN "swim" ELSE "run"

\* jitterDistance of bot-daily.js: Math.random() * 0.2 - 0.1, -10% .. +10%
jitterDistanceDaily(baseMeters, k) == jitterDistance(Decimal(baseMeters), 10, k)

\* bot.id, or SELECT id FROM users WHERE name = ? AND is_bot = 1 LIMIT 1: a
\* bot's name is its id here
ResolveBot(bot) ==
    IF ~IsNull(bot.id) THEN bot.id
    ELSE IF ~IsNull(bot.name) /\ bot.name[1] \in BotIds THEN bot.name
    ELSE NULL

\* SELECT id FROM sessions WHERE user_id = ? AND date = ? AND type = ? LIMIT 1
HasSessionOfType(rows, userId, dateStr, type) ==
    \E i \in 1..Len(rows) :
        rows[i].user_id = userId /\ rows[i].date = dateStr /\ rows[i].type = type

DailyStart ==
    /\ daily.pc = "idle"
    /\ daily.runs < MaxDailyRuns
    /\ daily' = [DailyIdle EXCEPT !.pc = "loop", !.today = today, !.idx = 1,
                                  !.runs = daily.runs + 1]
    /\ UNCHANGED <<responses, fn, today, challenges, notifications, sessions, cardResults, batch, req>>

DailyBot == BotList[daily.idx]

DailyNext(d) ==
    [d EXCEPT !.pc = "loop", !.idx = d.idx + 1, !.userId = NULL, !.type = "run",
              !.distance = 0]

\* no bot user for the entry: continue
DailyNotFound ==
    /\ daily.pc = "loop"
    /\ daily.idx <= Len(BotList)
    /\ IsNull(ResolveBot(DailyBot))
    /\ daily' = DailyNext(daily)
    /\ UNCHANGED <<responses, fn, today, challenges, notifications, sessions, cardResults, batch, req>>

\* the bot has a session of the type today: continue
DailyFound ==
    /\ daily.pc = "loop"
    /\ daily.idx <= Len(BotList)
    /\ ~IsNull(ResolveBot(DailyBot))
    /\ HasSessionOfType(sessions, ResolveBot(DailyBot)[1], daily.today,
                        normalizeType(DailyBot.type))
    /\ daily' = DailyNext(daily)
    /\ UNCHANGED <<responses, fn, today, challenges, notifications, sessions, cardResults, batch, req>>

\* the bot has none, and its distance gives no jittered distance: continue
DailyInvalidDistance ==
    /\ daily.pc = "loop"
    /\ daily.idx <= Len(BotList)
    /\ ~IsNull(ResolveBot(DailyBot))
    /\ ~HasSessionOfType(sessions, ResolveBot(DailyBot)[1], daily.today,
                         normalizeType(DailyBot.type))
    /\ \E k \in RandomDraws : Number(jitterDistanceDaily(DailyBot.distance_m, k)) = 0
    /\ daily' = DailyNext(daily)
    /\ UNCHANGED <<responses, fn, today, challenges, notifications, sessions, cardResults, batch, req>>

\* the bot has none: the distance is drawn
DailyMissing ==
    /\ daily.pc = "loop"
    /\ daily.idx <= Len(BotList)
    /\ ~IsNull(ResolveBot(DailyBot))
    /\ ~HasSessionOfType(sessions, ResolveBot(DailyBot)[1], daily.today,
                         normalizeType(DailyBot.type))
    /\ \E k \in RandomDraws :
         /\ Number(jitterDistanceDaily(DailyBot.distance_m, k)) # 0
         /\ daily' = [daily EXCEPT !.pc = "insert",
                                   !.userId = ResolveBot(DailyBot),
                                   !.type = normalizeType(DailyBot.type),
                                   !.distance = jitterDistanceDaily(DailyBot.distance_m, k)[1]]
    /\ UNCHANGED <<responses, fn, today, challenges, notifications, sessions, cardResults, batch, req>>

\* INSERT INTO sessions (id, user_id, date, distance, type)
DailyInsert ==
    /\ daily.pc = "insert"
    /\ sessions' = InsertSession(sessions, daily.userId[1], daily.today, daily.distance,
                                 daily.type)
    /\ daily' = DailyNext(daily)
    /\ UNCHANGED <<responses, fn, today, challenges, notifications, cardResults, batch, req>>

\* the list is done: pool.end()
DailyFinish ==
    /\ daily.pc = "loop"
    /\ daily.idx > Len(BotList)
    /\ daily' = [DailyIdle EXCEPT !.runs = daily.runs]
    /\ UNCHANGED <<responses, fn, today, challenges, notifications, sessions, cardResults, batch, req>>

\* ------------------------------------------------------------------ the clock
Tick ==
    /\ today < MaxDay
    /\ today' = today + 1
    /\ UNCHANGED <<responses, fn, daily, challenges, notifications, sessions, cardResults, batch, req>>

\* -------------------------------------------- the pure helpers, called alone
\* whole numbers of meters around the values the helpers test
MeterSamples == {1, 7, 500, 999, 1000, 1001, 5000, 10000}

\* decimal values, in units of 1/Fraction: the smallest ones, whole numbers of
\* meters and their neighbours
DecimalSamples ==
    (-2..MaxFine) \cup {-Fraction, 1000 * Fraction - 1, 1000 * Fraction + 1}
                  \cup {m * Fraction : m \in MeterSamples}
                  \cup {m * Fraction + Fraction \div 2 : m \in MeterSamples}

\* what Number() is given: null, a value that is no number, an infinite one, a decimal
NumberSamples == {NULL, NaN, Infinity} \cup {Some(v) : v \in DecimalSamples}

\* ratios, in percent
RatioSamples == {0, 15, 50, 100, 150}

\* what weightFn returns: a value that is no number, or a number
WeightSamples == {NaN, Infinity} \cup {Some(w) : w \in -1..MaxWeight}

WeightLists == UNION {[1..n -> WeightSamples] : n \in 0..MaxItems}

\* the seasons tables: season_number is the primary key and start_date is
\* unique; a season starts before the first day, on a day, or after the last
SeasonTables ==
    UNION {{ {[season_number |-> n, start_date |-> f[n]] : n \in ns} :
                f \in {g \in [ns -> -1..(MaxDay + 1)] :
                          \A x \in ns : \A y \in ns : g[x] = g[y] => x = y} } :
           ns \in SUBSET (1..MaxSeasons)}

\* what the bot_drop_rate of a bot row gives: NULL, what is no number, a number
RateSamples == {NULL, NaN} \cup {Some(w) : w \in -1..MaxWeight}

\* the season affinity of a bot row, and the season a run resolves
SeasonSamples == {NULL} \cup {Some(n) : n \in 1..MaxSeasons}

\* the columns of a bot row the weight functions read
WeightRow(rate, season, type) ==
    [bot_drop_rate |-> rate, bot_season_int |-> season, bot_card_type |-> Some(type)]

FnCall(op, args) == [op |-> op, args |-> args, done |-> FALSE, out |-> NULL]

FnCalls ==
    {FnCall("jitterDistance", <<b, r, k>>) :
        b \in NumberSamples, r \in RatioSamples, k \in 0..(RandomGrid - 1)}
    \cup {FnCall("normalizeMeters", <<v>>) : v \in NumberSamples}
    \cup UNION {{FnCall("pickWeighted", <<w, roll2>>) : roll2 \in Rolls(w)} : w \in WeightLists}
    \cup {FnCall("pickShare", <<w>>) : w \in {l \in WeightLists : ~HasInfinite(l)}}
    \cup {FnCall("seasonResolver", <<t, d>>) : t \in SeasonTables, d \in 0..MaxDay}
    \cup {FnCall("challengeWeight", <<WeightRow(r, a, t), active>>) :
            r \in RateSamples, a \in SeasonSamples, t \in {"defi", "rare"},
            active \in SeasonSamples}
    \cup {FnCall("eventWeight", <<WeightRow(r, NULL, "evenement")>>) : r \in RateSamples}

\* the datastore is empty and no handler runs: one helper is about to be called
InitFn ==
    /\ today = 0
    /\ challenges = <<>>
    /\ notifications = <<>>
    /\ sessions = <<>>
    /\ cardResults = <<>>
    /\ batch = BatchIdle
    /\ req = [p \in Procs |-> ReqIdle]
    /\ fn \in FnCalls
    /\ daily = DailyIdle
    /\ responses = {}

Returns(op, value) ==
    /\ fn.op = op
    /\ ~fn.done
    /\ fn' = [fn EXCEPT !.done = TRUE, !.out = value]
    /\ UNCHANGED <<responses, daily, today, challenges, notifications, sessions, cardResults, batch, req>>

CallJitterDistance ==
    /\ fn.op = "jitterDistance"
    /\ Returns("jitterDistance", jitterDistance(fn.args[1], fn.args[2], fn.args[3]))

CallNormalizeMeters ==
    /\ fn.op = "normalizeMeters"
    /\ Returns("normalizeMeters", normalizeMeters(fn.args[1]))

\* the items are their own positions in the list
Positions(weights) == [i \in 1..Len(weights) |-> i]

CallPickWeighted ==
    /\ fn.op = "pickWeighted"
    /\ Returns("pickWeighted",
               pickWeighted(Positions(fn.args[1]), fn.args[1], fn.args[2]))

\* pickWeighted over the whole range of its draw: the breakpoints of the walk are
\* sums of weights, whole numbers, so the draws of one open interval (j, j+1) all
\* give the item its midpoint gives; the result counts the intervals per item
CallPickShare ==
    /\ fn.op = "pickShare"
    /\ LET weights == fn.args[1]
           total == SeqSum([i \in 1..Len(weights) |-> CoerceWeight(weights[i])])
       IN Returns("pickShare",
                  Some([i \in 1..Len(weights) |->
                          Cardinality({j \in 0..(total - 1) :
                              pickWeighted(Positions(weights), weights, 2 * j + 1)
                                = Some(i)})]))

CallSeasonResolver ==
    /\ fn.op = "seasonResolver"
    /\ Returns("seasonResolver", SeasonResolverOf(fn.args[1], fn.args[2]))

\* the weight function of the challenge draw on one bot row, in quarters
CallChallengeWeight ==
    /\ fn.op = "challengeWeight"
    /\ Returns("challengeWeight", Some(ChallengeWeight4(fn.args[1], fn.args[2])))

\* the weight function of the event draw on one bot row
CallEventWeight ==
    /\ fn.op = "eventWeight"
    /\ Returns("eventWeight", Some(DropRateOrOne(fn.args[1])))

NextFn ==
    \/ CallJitterDistance
    \/ CallNormalizeMeters
    \/ CallPickWeighted
    \/ CallPickShare
    \/ CallSeasonResolver
    \/ CallChallengeWeight
    \/ CallEventWeight

SpecFn == InitFn /\ [][NextFn]_vars

\* ------------------------------------------------------------ specifications
ReqStart(p) ==
    \E u \in UserSet, body \in SessionInputs :
        ReqInsertSession(p, u, body[1], body[2])

\* the handlers under way: the batch run and the requests not yet answered
InFlight ==
    Cardinality({p \in Procs : req[p].pc # "idle"}) + (IF batch.pc = "idle" THEN 0 ELSE 1)

\* the batch and the requests interleave query by query
Next ==
    \/ InFlight < MaxInFlight /\ batch.runs < MaxRunsInterleaved /\ BatchStart
    \/ BatchSelectActive
    \/ BatchSkipUser
    \/ BatchExpireOverdue
    \/ BatchExpireOverride
    \/ BatchInsertChallenge
    \/ BatchNoAssign
    \/ BatchNotify
    \/ BatchEnsureFound
    \/ BatchEnsureMissing
    \/ BatchEnsureInsert
    \/ BatchFinish
    \/ \E p \in Procs : InFlight < MaxInFlight /\ ReqStart(p)
    \/ \E p \in Procs : ReqGetActive(p)
    \/ \E p \in Procs : ReqNoCompletion(p)
    \/ \E p \in Procs : ReqUpdate(p)
    \/ \E p \in Procs : ReqCard(p)
    \/ \E p \in Procs : ReqSuccessNotification(p)
    \/ \E p \in Procs : ReqMarkRead(p)
    \/ \E p \in Procs : ReqGrant(p)
    \/ batch.pc = "idle" /\ Tick

Spec == Init /\ [][Next]_vars

AllIdle == batch.pc = "idle" /\ \A p \in Procs : req[p].pc = "idle"

\* one handler at a time: the batch run and each request run to their end alone
NextSeq ==
    \/ AllIdle /\ BatchStart
    \/ BatchSelectActive
    \/ BatchSkipUser
    \/ BatchExpireOverdue
    \/ BatchExpireOverride
    \/ BatchInsertChallenge
    \/ BatchNoAssign
    \/ BatchNotify
    \/ BatchEnsureFound
    \/ BatchEnsureMissing
    \/ BatchEnsureInsert
    \/ BatchFinish
    \/ \E p \in Procs : AllIdle /\ ReqStart(p)
    \/ \E p \in Procs : ReqGetActive(p)
    \/ \E p \in Procs : ReqNoCompletion(p)
    \/ \E p \in Procs : ReqUpdate(p)
    \/ \E p \in Procs : ReqCard(p)
    \/ \E p \in Procs : ReqSuccessNotification(p)
    \/ \E p \in Procs : ReqMarkRead(p)
    \/ \E p \in Procs : ReqGrant(p)
    \/ AllIdle /\ Tick

SpecSeq == Init /\ [][NextSeq]_vars

ScriptsIdle == batch.pc = "idle" /\ daily.pc = "idle"

\* the two scheduled scripts, one at a time, and the batch with queries that fail
NextDaily ==
    \/ ScriptsIdle /\ BatchStart
    \/ BatchSelectActive
    \/ BatchSkipUser
    \/ BatchExpireOverdue
    \/ BatchExpireOverride
    \/ BatchInsertChallenge
    \/ BatchNoAssign
    \/ BatchNotify
    \/ BatchEnsureFound
    \/ BatchEnsureMissing
    \/ BatchEnsureInsert
    \/ BatchFinish
    \/ BatchFail
    \/ ScriptsIdle /\ BatchFailSetup
    \/ ScriptsIdle /\ DailyStart
    \/ DailyNotFound
    \/ DailyFound
    \/ DailyInvalidDistance
    \/ DailyMissing
    \/ DailyInsert
    \/ DailyFinish
    \/ ScriptsIdle /\ Tick

SpecDaily == Init /\ [][NextDaily]_vars

RoutesIdle == \A p \in Procs : req[p].pc = "idle"

\* the session routes of one client after another: creation with queries that
\* may fail, update and deletion
NextRoutes ==
    \/ \E p \in Procs : RoutesIdle /\ Len(sessions) < MaxSessions /\ ReqStart(p)
    \/ \E p \in Procs : ReqGetActive(p)
    \/ \E p \in Procs : ReqNoCompletion(p)
    \/ \E p \in Procs : ReqUpdate(p)
    \/ \E p \in Procs : ReqCard(p)
    \/ \E p \in Procs : ReqSuccessNotification(p)
    \/ \E p \in Procs : ReqMarkRead(p)
    \/ \E p \in Procs : ReqGrant(p)
    \/ \E p \in Procs : ReqFail(p)
    \/ \E u \in UserSet, id \in 1..MaxSessions, body \in PutInputs :
          RoutesIdle /\ ReqPutSession(u, id, body)
    \/ \E u \in UserSet, id \in 1..MaxSessions :
          RoutesIdle /\ ReqDeleteSession(u, id)
    \/ RoutesIdle /\ Tick

SpecRoutes == Init /\ [][NextRoutes]_vars

\* ================================================================== claims
Ids(rows) == 1..Len(rows)

\* the requests whose conditional UPDATE has changed the row (affectedRows = 1)
Won(p) == req[p].pc \in {"card", "success", "markRead"} \/ ~IsNull(req[p].completed)

\* the requests that have left handleChallengeCompletion
PastCompletion(p) == req[p].pc = "grant"

\* ------------------------------------------------------------------------ C1
\* C1: in every reachable state, whatever the interleaving of the batch run's
\* queries with those of session-creation requests, every human user has at most
\* one user_challenges row with status = 'active'.
C1_AtMostOneActive ==
    \A u \in UserSet : Cardinality(ActiveIds(challenges, u)) <= 1

\* a batch run has replaced a user's challenge while a request is under way: the
\* user holds one active challenge, next to an expired and a completed one
C1_Witness ==
    /\ batch.pc # "idle"
    /\ \E p \in Procs : req[p].pc # "idle"
    /\ \E u \in UserSet :
         /\ Cardinality(ActiveIds(challenges, u)) = 1
         /\ MostRecentActive(challenges, u) > batch.startLen
         /\ \E i \in Ids(challenges) :
              challenges[i].user_id = u /\ challenges[i].status = "expired"
    /\ \E i \in Ids(challenges) : challenges[i].status = "completed"

\* ------------------------------------------------------------------------ C2
SuccessTypes == {"event_success", "challenge_success"}

\* the ledger rows a request writes for a completed challenge (not the object cards)
CompletionCards(sids) ==
    {i \in Ids(cardResults) :
        cardResults[i].session_id \in sids /\ cardResults[i].type # "objet"}

SuccessNotifications(c) ==
    {i \in Ids(notifications) :
        notifications[i].challenge_id = c /\ notifications[i].type \in SuccessTypes}

\* both requests have read the same active challenge and both pass its checks
SameChallenge(p, q) ==
    /\ p # q
    /\ req[p].pc # "idle" /\ req[q].pc # "idle"
    /\ req[p].userId = req[q].userId
    /\ ~IsNull(req[p].challenge) /\ req[p].challenge = req[q].challenge
    /\ req[p].sessionDate >= req[p].challenge[1].start_date
    /\ req[p].sessionDate <= req[p].challenge[1].due_date
    /\ req[p].distance >= req[p].challenge[1].target_distance_m
    /\ req[q].sessionDate >= req[q].challenge[1].start_date
    /\ req[q].sessionDate <= req[q].challenge[1].due_date
    /\ req[q].distance >= req[q].challenge[1].target_distance_m

\* some other writer (a third request, or the batch expiring the row) has closed
\* the challenge, so that neither of the two requests finds it active
ClosedByAnother(c, sids) ==
    /\ challenges[c].status # "active"
    /\ \A s \in sids : challenges[c].completed_session_id # Some(s)

\* C2: when two concurrent requests of one user have read the same active challenge
\* and both satisfy its window and target, then once both have run the conditional
\* UPDATE exactly one of them has made the active -> completed transition (unless
\* another writer closed the challenge before either UPDATE, and then none has);
\* the other writes no CardResult and no success notification: there is never more
\* than one of each for the challenge, and exactly one once both have left the
\* detector.
C2_ExactlyOneCompletion ==
    \A p \in Procs : \A q \in Procs :
        SameChallenge(p, q) =>
            LET c == req[p].challenge[1].id
                sids == {req[p].sessionId, req[q].sessionId}
            IN /\ ~(Won(p) /\ Won(q))
               /\ Cardinality(CompletionCards(sids)) <= 1
               /\ Cardinality(SuccessNotifications(c)) <= 1
               /\ (req[p].pc \notin {"getActive", "update"}
                   /\ req[q].pc \notin {"getActive", "update"})
                    => (Won(p) \/ Won(q)) = ~ClosedByAnother(c, sids)
               /\ (PastCompletion(p) /\ PastCompletion(q) /\ (Won(p) \/ Won(q)))
                    => /\ Cardinality(CompletionCards(sids)) = 1
                       /\ Cardinality(SuccessNotifications(c)) = 1
                       /\ challenges[c].status # "active"
                       /\ challenges[c].completed_session_id \in
                            {Some(req[p].sessionId), Some(req[q].sessionId)}

\* both requests hold the same challenge, both are past the detector, one has won
C2_Witness ==
    \E p \in Procs : \E q \in Procs :
        /\ SameChallenge(p, q)
        /\ PastCompletion(p) /\ PastCompletion(q)
        /\ Won(p) /\ ~Won(q)
        /\ challenges[req[p].challenge[1].id].status = "completed"

\* ------------------------------------------------------------------------ C3
\* the run has processed every user (the state BatchFinish leaves)
RunOver == batch.pc = "loop" /\ batch.idx > Len(Users)

\* the rows the current run has inserted for a user
CreatedInRun(u) ==
    {i \in Ids(challenges) : i > batch.startLen /\ challenges[i].user_id = u}

\* the user held, when the run started, an active challenge with due_date >= today
HeldValidAtStart(u) ==
    /\ batch.startActive[u] # 0
    /\ challenges[batch.startActive[u]].due_date >= batch.today

\* C3: in a batch run for which a daily event bot is selected, every user who held
\* an active challenge with due_date >= today when the run started ends the run
\* with that challenge expired and with one new active challenge of type evenement
\* against the event bot, whose start_date and due_date are both today.
C3_EventOverride ==
    (RunOver /\ ~IsNull(batch.dailyEventBot)) =>
        \A u \in UserSet :
            HeldValidAtStart(u) =>
                /\ challenges[batch.startActive[u]].status = "expired"
                /\ Cardinality(CreatedInRun(u)) = 1
                /\ \A i \in CreatedInRun(u) :
                     /\ challenges[i].status = "active"
                     /\ challenges[i].type = "evenement"
                     /\ challenges[i].bot_id = batch.dailyEventBot[1].id
                     /\ challenges[i].start_date = batch.today
                     /\ challenges[i].due_date = batch.today
                /\ ActiveIds(challenges, u) = CreatedInRun(u)

\* an event run is over and a user held a valid challenge when it started
C3_Witness ==
    /\ RunOver
    /\ ~IsNull(batch.dailyEventBot)
    /\ \E u \in UserSet :
         /\ HeldValidAtStart(u)
         /\ challenges[batch.startActive[u]].status = "expired"
         /\ challenges[batch.startActive[u]].type # "evenement"

\* ------------------------------------------------------------------------ C4
\* C4: within one batch run, no two distinct users are assigned the same bot as
\* opponent of a challenge whose type is not evenement.
C4_BotExclusivity ==
    \A i \in Ids(challenges) : \A j \in Ids(challenges) :
        (/\ batch.pc # "idle"
         /\ i > batch.startLen /\ j > batch.startLen
         /\ challenges[i].user_id # challenges[j].user_id
         /\ challenges[i].type # "evenement"
         /\ challenges[j].type # "evenement")
            => challenges[i].bot_id # challenges[j].bot_id

\* one run has assigned a non-event challenge to each of two users
C4_Witness ==
    /\ batch.pc # "idle"
    /\ \E i \in Ids(challenges) : \E j \in Ids(challenges) :
         /\ i > batch.startLen /\ j > batch.startLen
         /\ challenges[i].user_id # challenges[j].user_id
         /\ challenges[i].type # "evenement"
         /\ challenges[j].type # "evenement"
         /\ challenges[i].bot_id # challenges[j].bot_id

\* ------------------------------------------------------------------------ C5
StartTypes == {"challenge_start", "event_start"}

\* the user holds, when the run starts, an active challenge that an earlier run of
\* the same day has created
HoldsTodaysChallenge(u) ==
    /\ batch.startActive[u] # 0
    /\ challenges[batch.startActive[u]].start_date = batch.today

\* C5: a later batch run of the same calendar day does not double-assign: for a
\* user who still holds, active, the challenge an earlier run of that day created,
\* it inserts no user_challenges row and no start notification, with or without a
\* daily event bot.
C5_RerunIdempotent ==
    batch.pc # "idle" =>
        \A u \in UserSet :
            HoldsTodaysChallenge(u) =>
                /\ CreatedInRun(u) = {}
                /\ \A n \in Ids(notifications) :
                     (n > batch.startNotifs /\ notifications[n].user_id = u)
                        => notifications[n].type \notin StartTypes

\* the part of C5 the code keeps: without a daily event bot the rerun skips the user
C5_RerunWithoutEvent ==
    (batch.pc # "idle" /\ IsNull(batch.dailyEventBot)) =>
        \A u \in UserSet :
            HoldsTodaysChallenge(u) =>
                /\ CreatedInRun(u) = {}
                /\ \A n \in Ids(notifications) :
                     (n > batch.startNotifs /\ notifications[n].user_id = u)
                        => notifications[n].type \notin StartTypes

C5_RerunWithoutEventWitness ==
    /\ RunOver
    /\ IsNull(batch.dailyEventBot)
    /\ \E u \in UserSet : HoldsTodaysChallenge(u)

\* ------------------------------------------------------------------------ C6
\* the step is one of request p
StepOf(p) == req'[p] # req[p]

\* the session of request p misses the window or the target of the user's active
\* challenge, as handleChallengeCompletion is about to read it
MissesChallenge(p) ==
    LET a == MostRecentActive(challenges, req[p].userId)
    IN /\ a # 0
       /\ \/ req[p].sessionDate < challenges[a].start_date
          \/ req[p].sessionDate > challenges[a].due_date
          \/ req[p].distance < challenges[a].target_distance_m

ChallengeTypes == {"defi", "rare", "evenement"}
ChallengeCards(rows) == SelectSeq(rows, LAMBDA r : r.type \in ChallengeTypes)

\* C6: a request turns a challenge to completed only if its session's date lies in
\* [start_date, due_date] and its session's distance is >= target_distance_m; a
\* request whose session fails either condition leaves the challenges, the card
\* results of challenge types and the notifications as they are, in every step it
\* takes.
C6_CompletionOnlyWhenQualifying ==
    [][/\ \A i \in Ids(challenges) :
            (challenges[i].status # "completed" /\ challenges'[i].status = "completed")
               => /\ ~IsNull(challenges'[i].completed_session_id)
                  /\ LET s == sessions[challenges'[i].completed_session_id[1]]
                     IN /\ challenges[i].start_date <= s.date
                        /\ s.date <= challenges[i].due_date
                        /\ s.distance >= challenges[i].target_distance_m
       /\ \A p \in Procs :
            (/\ StepOf(p)
             /\ \/ req[p].pc = "getActive" /\ MissesChallenge(p)
                \/ req[p].pc = "grant" /\ IsNull(req[p].completed) /\ ~IsNull(req[p].challenge))
               => /\ challenges' = challenges
                  /\ notifications' = notifications
                  /\ ChallengeCards(cardResults') = ChallengeCards(cardResults)
                  /\ IsNull(req'[p].completed)
                  /\ req'[p].pc \in {"idle", "grant"}]_vars

\* one session has completed a challenge, and another, long enough but dated after
\* the due date of its user's challenge, has gone through without completing it
C6_Witness ==
    /\ \E i \in Ids(challenges) : challenges[i].status = "completed"
    /\ \E p \in Procs :
         /\ req[p].pc = "grant"
         /\ IsNull(req[p].completed)
         /\ ~IsNull(req[p].challenge)
         /\ req[p].sessionDate > req[p].challenge[1].due_date
         /\ req[p].distance >= req[p].challenge[1].target_distance_m
         /\ challenges[req[p].challenge[1].id].status = "active"

\* ------------------------------------------------------------------------ C7
\* a request has completed the challenge with session s and its INSERT is still to come
CardPending(s) == \E p \in Procs : req[p].pc = "card" /\ req[p].sessionId = s

CompletedBy(s) ==
    {i \in Ids(challenges) : challenges[i].completed_session_id = Some(s)}

ChallengeCardsOf(s) ==
    {r \in Ids(cardResults) : /\ cardResults[r].session_id = s
                              /\ cardResults[r].type \in ChallengeTypes}

\* C7: every transition to completed appends exactly one card result that carries
\* the challenge's user, bot, type and target, the id and distance of the session
\* that triggered it and that session's date as achieved date, and the challenge's
\* completed_session_id is that session; no other card result of a challenge type
\* exists.
C7_OneCardPerCompletion ==
    \A s \in Ids(sessions) :
        /\ Cardinality(CompletedBy(s)) <= 1
        /\ Cardinality(ChallengeCardsOf(s)) =
              IF CompletedBy(s) # {} /\ ~CardPending(s) THEN 1 ELSE 0
        /\ \A i \in CompletedBy(s) : \A r \in ChallengeCardsOf(s) :
              /\ cardResults[r].user_id = challenges[i].user_id
              /\ cardResults[r].user_id = sessions[s].user_id
              /\ cardResults[r].bot_id = challenges[i].bot_id
              /\ cardResults[r].type = challenges[i].type
              /\ cardResults[r].target_distance_m = challenges[i].target_distance_m
              /\ cardResults[r].distance_m = sessions[s].distance
              /\ cardResults[r].achieved_at = sessions[s].date

\* a completion has its card result
C7_Witness ==
    \E s \in Ids(sessions) :
        /\ \E i \in CompletedBy(s) : challenges[i].status = "completed"
        /\ Cardinality(ChallengeCardsOf(s)) = 1

\* ------------------------------------------------------------------------ C8
\* the request that created session s has answered
Answered(s) ==
    /\ sessions[s].user_id \in UserSet
    /\ \A p \in Procs : req[p].pc # "idle" => req[p].sessionId # s

\* bot_card_type = 'objet', bot_target_distance_m not null and <= d
ObjectThresholdMet(b, d) ==
    /\ BotRow(b).bot_card_type = Some("objet")
    /\ BotRow(b).bot_target_distance_m # NULL
    /\ BotRow(b).bot_target_distance_m[1] <= d

ObjectCardsOf(s, b) ==
    {r \in Ids(cardResults) : /\ cardResults[r].session_id = s
                              /\ cardResults[r].type = "objet"
                              /\ cardResults[r].bot_id = b}

\* the sessions of user u that meet the threshold of bot b
QualifyingSessions(u, b) ==
    {s \in Ids(sessions) : sessions[s].user_id = u /\ ObjectThresholdMet(b, sessions[s].distance)}

\* C8: a session creation with distance d for a human user appends exactly one
\* card result of type objet for each bot of card type objet with a non-null
\* target_distance_m <= d, and none for any other bot; nothing is deduplicated: k
\* qualifying sessions of a user give k rows for the same object bot.
C8_ObjectCards ==
    /\ \A s \in Ids(sessions) : \A b \in BotIds :
          Answered(s) =>
             /\ Cardinality(ObjectCardsOf(s, b)) =
                   IF ObjectThresholdMet(b, sessions[s].distance) THEN 1 ELSE 0
             /\ \A r \in ObjectCardsOf(s, b) :
                   /\ cardResults[r].user_id = sessions[s].user_id
                   /\ cardResults[r].distance_m = sessions[s].distance
                   /\ cardResults[r].target_distance_m = BotRow(b).bot_target_distance_m[1]
                   /\ cardResults[r].achieved_at = sessions[s].date
    /\ (\A p \in Procs : req[p].pc = "idle") =>
          \A u \in UserSet : \A b \in BotIds :
             Cardinality({r \in Ids(cardResults) : /\ cardResults[r].user_id = u
                                                   /\ cardResults[r].type = "objet"
                                                   /\ cardResults[r].bot_id = b})
                = Cardinality(QualifyingSessions(u, b))

\* two answered sessions of one user have each earned the same object bot's card
C8_Witness ==
    \E u \in UserSet : \E b \in BotIds :
        /\ Cardinality(QualifyingSessions(u, b)) = 2
        /\ \A s \in QualifyingSessions(u, b) :
              Answered(s) /\ Cardinality(ObjectCardsOf(s, b)) = 1

\* ------------------------------------------------------------------------ C9
UserIdx(u) == CHOOSE i \in 1..Len(Users) : Users[i] = u

\* the used-today set as the run held it when it came to user u: what the run
\* loaded, and the bots it had given to the users before u
UsedBefore(u) ==
    {challenges[i].bot_id :
        i \in {j \in Ids(challenges) :
                 \/ j <= batch.startLen /\ challenges[j].start_date = batch.today
                 \/ /\ j > batch.startLen
                    /\ challenges[j].type # "evenement"
                    /\ UserIdx(challenges[j].user_id) < UserIdx(u)}}

\* the available challenge pool of the pick for user u
AvailableFor(u) == availableChallengeBots(batch.activeSeason, UsedBefore(u))

\* target_distance_m if present, else avg_distance_m
RawBase(b) ==
    IF b.bot_target_distance_m # NULL THEN b.bot_target_distance_m[1]
    ELSE IF b.avg_distance_m # NULL THEN b.avg_distance_m[1] ELSE 0

\* the base distance N of bot b, in meters (a value below 1000 is in kilometers)
BaseMeters(b) == IF RawBase(b) < 1000 THEN RawBase(b) * 1000 ELSE RawBase(b)

EventPoolEmpty == \A b \in BotIds : ~IsEventBot(BotRow(b), batch.today)

\* the user held no active challenge, the event pool is empty and the available
\* pool of the user's pick is one defi bot with a base distance and a positive
\* drop rate
SingleDefiBotFor(u) ==
    /\ batch.startActive[u] = 0
    /\ EventPoolEmpty
    /\ Len(AvailableFor(u)) = 1
    /\ AvailableFor(u)[1].bot_card_type = Some("defi")
    /\ RawBase(AvailableFor(u)[1]) > 0
    /\ AvailableFor(u)[1].bot_drop_rate # NULL
    /\ AvailableFor(u)[1].bot_drop_rate[1] > 0

StartNotificationsInRun(u, type) ==
    {n \in Ids(notifications) : /\ n > batch.startNotifs
                                /\ notifications[n].user_id = u
                                /\ notifications[n].type = type}

\* C9: if a user has no active challenge, the event pool is empty and the challenge
\* pool holds, when the run picks for the user, one eligible unused bot of type
\* defi with base distance N and a positive drop rate, the run leaves the user
\* with exactly one active challenge, against that bot, with a target in
\* [round(0.85 N), round(1.15 N)], start_date = today and due_date = today + 3,
\* and with exactly one challenge_start notification.
C9_SingleBotAssignment ==
    RunOver =>
        \A u \in UserSet :
            SingleDefiBotFor(u) =>
                LET bot == AvailableFor(u)[1]
                    N == BaseMeters(bot)
                IN /\ Cardinality(ActiveIds(challenges, u)) = 1
                   /\ ActiveIds(challenges, u) = CreatedInRun(u)
                   /\ \A i \in CreatedInRun(u) :
                        /\ challenges[i].bot_id = bot.id
                        /\ challenges[i].type = "defi"
                        /\ challenges[i].target_distance_m >= Round(85 * N, 100)
                        /\ challenges[i].target_distance_m <= Round(115 * N, 100)
                        /\ challenges[i].start_date = batch.today
                        /\ challenges[i].due_date = batch.today + 3
                        /\ \A n \in StartNotificationsInRun(u, "challenge_start") :
                             /\ notifications[n].challenge_id = i
                             /\ notifications[n].bot_id = bot.id
                   /\ Cardinality(StartNotificationsInRun(u, "challenge_start")) = 1
                   /\ StartNotificationsInRun(u, "event_start") = {}

\* a run is over in which the pick for some user had one defi bot to draw from
C9_Witness ==
    /\ RunOver
    /\ \E u \in UserSet :
         /\ SingleDefiBotFor(u)
         /\ \E i \in CreatedInRun(u) : challenges[i].bot_id = AvailableFor(u)[1].id

\* ----------------------------------------------------------------------- C10
\* the user held, when the run started, an active challenge with due_date < today
HeldOverdueAtStart(u) ==
    /\ batch.startActive[u] # 0
    /\ challenges[batch.startActive[u]].due_date < batch.today

\* the pools of the pick for user u are not empty
PoolsNonEmptyFor(u) == ~EventPoolEmpty \/ Len(AvailableFor(u)) > 0

\* an event bot is selected, or the available pool of the pick is not empty and
\* each of its bots has a positive base distance and no negative drop rate
PoolsUsableFor(u) ==
    \/ ~EventPoolEmpty
    \/ /\ Len(AvailableFor(u)) > 0
       /\ \A k \in 1..Len(AvailableFor(u)) :
            /\ RawBase(AvailableFor(u)[k]) > 0
            /\ Number(AvailableFor(u)[k].bot_drop_rate) >= 0

FreshChallengeFor(u) ==
    /\ Cardinality(CreatedInRun(u)) = 1
    /\ \A i \in CreatedInRun(u) :
         /\ challenges[i].status = "active"
         /\ challenges[i].start_date = batch.today

\* the overdue challenge is expired before anything is inserted for the user
ExpiredFirst(u) ==
    (CreatedInRun(u) # {} \/ RunOver) => challenges[batch.startActive[u]].status = "expired"

\* C10 as stated: if a user's active challenge has due_date < today, a batch run
\* first sets it to expired and then, if the pools are non-empty, assigns the user
\* a fresh active challenge with start_date = today in the same run.
C10_AsStated ==
    batch.pc # "idle" =>
        \A u \in UserSet :
            HeldOverdueAtStart(u) =>
                /\ ExpiredFirst(u)
                /\ (RunOver /\ PoolsNonEmptyFor(u)) => FreshChallengeFor(u)

\* C10, amended: if a user's active challenge has due_date < today, a batch run
\* first sets it to expired and then assigns the user a fresh active challenge
\* with start_date = today in the same run, provided an event bot is selected or
\* the available challenge pool is non-empty and holds only bots with a positive
\* base distance (target_distance_m if present, else avg_distance_m).
C10_ExpireThenAssign ==
    batch.pc # "idle" =>
        \A u \in UserSet :
            HeldOverdueAtStart(u) =>
                /\ ExpiredFirst(u)
                /\ (RunOver /\ PoolsUsableFor(u)) => FreshChallengeFor(u)

\* a run is over that found an overdue challenge, drew from a challenge pool and
\* gave the user a new challenge
C10_Witness ==
    /\ RunOver
    /\ \E u \in UserSet :
         /\ HeldOverdueAtStart(u)
         /\ EventPoolEmpty
         /\ PoolsUsableFor(u)
         /\ challenges[batch.startActive[u]].status = "expired"
         /\ FreshChallengeFor(u)

\* ----------------------------------------------------------------------- C11
\* the helper op has returned
Returned(op) == fn.op = op /\ fn.done

\* the argument is a finite number above zero
FinitePositive(x) == Len(x) = 1 /\ x[1] > 0

\* C11: for every finite positive base and every ratio (from 0 up),
\* jitterDistance(base, ratio) lies in
\* [round(base * (1 - ratio)), round(base * (1 + ratio))] for every random draw;
\* for a base that is not finite or not positive it returns null.
C11_JitterWithinBounds ==
    Returned("jitterDistance") =>
        LET base == fn.args[1]
            ratioPct == fn.args[2]
        IN IF FinitePositive(base)
           THEN /\ fn.out # NULL
                /\ fn.out[1] >= RoundScaled(base[1], 100 - ratioPct, 100)
                /\ fn.out[1] <= RoundScaled(base[1], 100 + ratioPct, 100)
           ELSE fn.out = NULL

\* a base that is no whole number of meters, jittered by 15 %, has come out
\* strictly inside the interval
C11_Witness ==
    /\ Returned("jitterDistance")
    /\ FinitePositive(fn.args[1])
    /\ fn.args[1][1] % Fraction # 0
    /\ fn.args[2] = 15
    /\ fn.out[1] > RoundScaled(fn.args[1][1], 100 - 15, 100)
    /\ fn.out[1] < RoundScaled(fn.args[1][1], 100 + 15, 100)

\* ----------------------------------------------------------------------- C12
\* Math.round(v * 1000) for v below 1000, and v itself from 1000 on, in units of
\* 1/Fraction
ExpectedMeters(v) ==
    IF v < 1000 * Fraction THEN RoundScaled(v, 1000, 1) * Fraction ELSE v

\* what C12 says of the value returned, but for the sign of the result
NormalizedAsSpecified ==
    LET value == fn.args[1]
    IN IF FinitePositive(value)
       THEN fn.out = Some(ExpectedMeters(value[1]))
       ELSE fn.out = NULL

CoercedWeights(weights) ==
    [i \in 1..Len(weights) |->
        IF weights[i] = NaN \/ weights[i][1] < 0 THEN 0 ELSE weights[i][1]]

\* the sum of the coerced weights is above zero
SumPositive(weights) == HasInfinite(weights) \/ SeqSum(CoercedWeights(weights)) > 0

\* the positions at which the remainder of the draw, the weights up to there
\* taken off, is <= 0; with an infinite weight the remainder is never <= 0
Hits(weights, roll2) ==
    IF HasInfinite(weights) THEN {}
    ELSE {i \in 1..Len(weights) :
            roll2 - 2 * SeqSum(SubSeq(CoercedWeights(weights), 1, i)) <= 0}

\* C13: pickWeighted returns null exactly when the sum of the coerced weights is
\* <= 0; otherwise it returns the first item at which the running remainder is
\* <= 0, or the last item if no item hits.
C13_PickWeighted ==
    Returned("pickWeighted") =>
        LET weights == fn.args[1]
            hits == Hits(weights, fn.args[2])
        IN /\ (fn.out = NULL) = ~SumPositive(weights)
           /\ SumPositive(weights) =>
                fn.out = Some(IF hits = {} THEN Len(weights)
                              ELSE CHOOSE i \in hits : \A j \in hits : i <= j)

\* a list with a weight that is no number and a negative one, and a draw that
\* passed the first item and stopped at the second
C13_Witness ==
    /\ Returned("pickWeighted")
    /\ fn.args[1] = <<NaN, Some(2), Some(-1)>>
    /\ fn.args[2] = 3
    /\ fn.out = Some(2)

\* no item has hit, and the last item has come out
C13_WitnessLast ==
    /\ Returned("pickWeighted")
    /\ Len(fn.args[1]) = 3
    /\ Hits(fn.args[1], fn.args[2]) = {}
    /\ fn.out = Some(3)

\* ----------------------------------------------------------------------- C14
\* C14: pickWeighted selects each item with probability proportional to its
\* weight: of the draw range [0, sum), cut at the whole numbers, the part that
\* selects item i is weight_i out of sum, so for the weights [3, 1] the first
\* item is selected on 3 parts of 4.
C14_ShareProportional ==
    Returned("pickShare") =>
        LET weights == fn.args[1]
            c == CoercedWeights(weights)
            share == fn.out[1]
        IN /\ SeqSum(share) = SeqSum(c)
           /\ \A i \in 1..Len(weights) : share[i] = c[i]
           /\ weights = <<Some(3), Some(1)>> => 100 * share[1] = 75 * SeqSum(c)

\* the weights [3, 1] have been measured: 3 parts for the first item, 1 for the
\* second
C14_Witness ==
    /\ Returned("pickShare")
    /\ fn.args[1] = <<Some(3), Some(1)>>
    /\ fn.out = Some(<<3, 1>>)

\* ----------------------------------------------------------------------- C17
\* the seasons of the table that have started by the day
StartedBy(seasons, day) == {s \in seasons : s.start_date <= day}

\* C17: the Season Resolver returns the season with the greatest start date that
\* is less than or equal to today, and returns none exactly when no season has a
\* start date on or before today.
C17_SeasonResolver ==
    Returned("seasonResolver") =>
        LET started == StartedBy(fn.args[1], fn.args[2])
        IN /\ (fn.out = NULL) = (started = {})
           /\ started # {} =>
                \E s \in started :
                    /\ fn.out = Some(s.season_number)
                    /\ \A t \in started : t.start_date <= s.start_date

\* two seasons had started, the one with the lower number last, and a third
\* was still to come: the one that started last has come out
C17_Witness ==
    /\ Returned("seasonResolver")
    /\ fn.args[1] = {[season_number |-> 2, start_date |-> -1],
                     [season_number |-> 1, start_date |-> 1],
                     [season_number |-> 3, start_date |-> 2]}
    /\ fn.args[2] = 1
    /\ fn.out = Some(1)

\* no season had started, though the table held one: none has come out
C17_WitnessNone ==
    /\ Returned("seasonResolver")
    /\ fn.args[1] # {}
    /\ StartedBy(fn.args[1], fn.args[2]) = {}
    /\ fn.out = NULL

\* ----------------------------------------------------------------------- C18
\* the bot of a challenge row may be drawn on the day: it has no season
\* affinity, or a season has started by the day, and the one that started last
\* has a number that is no lower than the affinity
AffinityAllowed(botId, day) ==
    LET affinity == BotRow(botId).bot_season_int
        started == StartedBy(Seasons, day)
    IN \/ IsNull(affinity)
       \/ \E s \in started : /\ \A t \in started : t.start_date <= s.start_date
                              /\ affinity[1] <= s.season_number

\* C18: no challenge created by a batch run has a bot whose season affinity is
\* greater than the season resolved in that run, or any bot with a set affinity
\* when no season resolves; this holds for event and non-event challenges alike.
C18_SeasonFilter ==
    [][Len(challenges') > Len(challenges) =>
         /\ batch.pc # "idle"
         /\ AffinityAllowed(challenges'[Len(challenges')].bot_id, batch.today)]_vars

\* a run in season 1 has given a user the bot of season 1, while the bots of
\* season 2 are in the table
C18_Witness ==
    /\ batch.pc = "notify"
    /\ batch.activeSeason = Some(1)
    /\ challenges[batch.challengeId].bot_id = "br"
    /\ challenges[batch.challengeId].type = "rare"
    /\ BotRow("br").bot_season_int = Some(1)
    /\ \E id \in BotIds : BotRow(id).bot_season_int = Some(2)

\* a run on a day before the first season has given a user a bot without
\* affinity
C18_WitnessNoSeason ==
    /\ batch.pc = "notify"
    /\ batch.activeSeason = NULL
    /\ StartedBy(Seasons, batch.today) = {}
    /\ IsNull(BotRow(challenges[batch.challengeId].bot_id).bot_season_int)

\* a run has given a user the event of the day
C18_WitnessEvent ==
    /\ batch.pc = "notify"
    /\ challenges[batch.challengeId].type = "evenement"
    /\ batch.activeSeason # NULL

\* ----------------------------------------------------------------------- C19
\* the event challenges that started on the day
EventRowsOf(day) ==
    {i \in 1..Len(challenges) :
        challenges[i].type = "evenement" /\ challenges[i].start_date = day}

\* C19: at most one event per calendar day: all challenge rows of type
\* evenement with the same start date reference the same bot, for all users and
\* after any number of runs that day.
C19_OneEventPerDay ==
    \A day \in 0..MaxDay :
        \A i \in EventRowsOf(day) : \A j \in EventRowsOf(day) :
            challenges[i].bot_id = challenges[j].bot_id

\* within one run the event challenges have one bot: the rows of type evenement
\* a run has created so far reference the event bot it drew at its start
C19_OneEventPerRun ==
    batch.pc # "idle" =>
        \A i \in (batch.startLen + 1)..Len(challenges) :
            challenges[i].type = "evenement" =>
                /\ ~IsNull(batch.dailyEventBot)
                /\ challenges[i].bot_id = batch.dailyEventBot[1].id
                /\ challenges[i].start_date = batch.today

\* a run has given both users the event of the day
C19_OneEventPerRunWitness ==
    /\ batch.pc = "notify"
    /\ batch.idx = Len(Users)
    /\ Cardinality(EventRowsOf(batch.today) \cap ((batch.startLen + 1)..Len(challenges)))
         = Len(Users)

\* ----------------------------------------------------------------------- C15
\* two session rows of one bot and one date
SameBotAndDay(i, j) ==
    /\ sessions[i].user_id = sessions[j].user_id
    /\ sessions[i].date = sessions[j].date

\* C15: the Synthetic Bot Session Writer is idempotent: it inserts a session for
\* bot B on date D only when B has no session at all on D, so after any number
\* of batch runs and any number of users assigned to B on D the batch has
\* written at most one session for (B, D).
C15_WriterIdempotent ==
    \A i \in batch.written :
        /\ \A j \in 1..(i - 1) : ~SameBotAndDay(i, j)
        /\ \A j \in batch.written : SameBotAndDay(i, j) => i = j

\* two runs on one day have given the bot to three users or more, and the
\* batch has written one session for the bot on the day
C15_Witness ==
    /\ batch.runs = 2
    /\ \E b \in BotIds : \E d \in 0..MaxDay :
         /\ Cardinality({i \in 1..Len(challenges) :
                            challenges[i].bot_id = b /\ challenges[i].start_date = d}) >= 3
         /\ Cardinality({i \in batch.written :
                            sessions[i].user_id = b /\ sessions[i].date = d}) = 1

\* the bot had a session of bot-daily.js on the day, of another type, and the
\* batch, assigning the bot, has written none
C15_WitnessOtherWriter ==
    /\ batch.pc = "loop"
    /\ batch.idx > 1
    /\ \E i \in (batch.startLen + 1)..Len(challenges) :
         /\ \E j \in 1..Len(sessions) :
              /\ sessions[j].user_id = challenges[i].bot_id
              /\ sessions[j].date = challenges[i].start_date
              /\ sessions[j].type = "swim"
         /\ \A j \in batch.written :
              ~(/\ sessions[j].user_id = challenges[i].bot_id
                /\ sessions[j].date = challenges[i].start_date)

\* ----------------------------------------------------------------------- C16
\* C16: after the batch assigns a challenge with opponent bot B and target
\* distance T on date D, bot B has a session dated D whose distance equals T:
\* when ensureBotSession has returned for the assignment, such a row exists.
C16_SessionMatchesTarget ==
    [][(batch.pc \in {"ensure", "ensureInsert"} /\ batch'.pc = "loop") =>
         \E i \in 1..Len(sessions') :
             /\ sessions'[i].user_id = batch.bot[1].id
             /\ sessions'[i].date = batch.today
             /\ sessions'[i].distance = batch.targetDistance]_vars

\* the batch has assigned a bot and written its session: the row has the
\* target of the challenge
C16_WrittenWitness ==
    /\ batch.pc = "loop"
    /\ batch.idx > 1
    /\ \E i \in (batch.startLen + 1)..Len(challenges) :
         \E j \in batch.written :
             /\ j > batch.startSessions
             /\ sessions[j].user_id = challenges[i].bot_id
             /\ sessions[j].date = challenges[i].start_date
             /\ sessions[j].distance = challenges[i].target_distance_m

\* ----------------------------------------------------------------------- C20
\* a query has failed in this step, while user k of the list was processed
FailedAtUser(k) == batch'.failedIdx = k /\ batch'.failedIdx # batch.failedIdx

\* the rows the run has written so far belong to the users up to k
RowsUpTo(k) ==
    /\ \A i \in (batch.startLen + 1)..Len(challenges) :
         UserIdx(challenges[i].user_id) <= k
    /\ \A n \in (batch.startNotifs + 1)..Len(notifications) :
         UserIdx(notifications[n].user_id) <= k
    /\ \A j \in batch.written :
         j > batch.startSessions =>
            \E i \in (batch.startLen + 1)..Len(challenges) :
                /\ challenges[i].bot_id = sessions[j].user_id
                /\ challenges[i].start_date = sessions[j].date
                /\ UserIdx(challenges[i].user_id) <= k

TablesUnchanged ==
    /\ challenges' = challenges
    /\ notifications' = notifications
    /\ sessions' = sessions
    /\ cardResults' = cardResults

\* C20: if a datastore operation fails while the batch processes user k, the
\* run stops there: no challenge, notification or session row is written for
\* any user after k in that run, the rows already written for earlier users
\* remain, and the process exits with a non-zero status; a run without failure
\* exits with status zero.
C20_FailureStopsRun ==
    [][/\ \A k \in 1..Len(Users) :
            FailedAtUser(k) =>
                /\ batch.pc # "idle" /\ batch.idx = k
                /\ batch'.pc = "idle" /\ batch'.exitCode = 1
                /\ batch'.runs = batch.runs
                /\ TablesUnchanged
                /\ RowsUpTo(k)
       /\ (batch.pc = "idle" /\ batch'.pc = "idle" /\ batch'.runs # batch.runs) =>
            batch'.exitCode = 1 /\ TablesUnchanged
       /\ (batch.pc = "idle" /\ batch.exitCode = 1 /\ batch'.runs = batch.runs) =>
            /\ challenges' = challenges
            /\ notifications' = notifications
            /\ batch'.written = batch.written
            /\ batch'.exitCode = 1
       /\ (batch.pc # "idle" /\ batch'.pc = "idle" /\ batch'.failedIdx = 0) =>
            /\ RunOver
            /\ batch'.exitCode = 0
       /\ batch'.exitCode = 0 => batch'.pc = "idle" /\ batch'.failedIdx = 0
       /\ batch'.pc # "idle" => batch'.exitCode = -1]_vars

\* a run has failed at the second user after it gave the first a challenge of
\* the day: the first user's rows are there, the second has none, the status is 1
C20_Witness ==
    /\ batch.pc = "idle"
    /\ batch.exitCode = 1
    /\ batch.failedIdx = 2
    /\ \E i \in 1..Len(challenges) :
         /\ challenges[i].user_id = Users[1]
         /\ challenges[i].start_date = today
         /\ challenges[i].status = "active"
         /\ \E n \in 1..Len(notifications) : notifications[n].challenge_id = i
    /\ \A i \in 1..Len(challenges) :
         challenges[i].user_id = Users[2] => challenges[i].start_date < today

\* a run has gone through all users and left with status 0
C20_WitnessZero ==
    /\ batch.pc = "idle"
    /\ batch.exitCode = 0
    /\ \E i \in 1..Len(challenges) : challenges[i].start_date = today

\* ----------------------------------------------------------------------- C21
\* C21: every status change of a challenge is active -> completed or active ->
\* expired: once a challenge is completed or expired its status never changes
\* again, under any interleaving of a batch run's read-then-update with a
\* request completing the challenge; no operation sets the status cancelled.
C21_StatusTransitions ==
    [][\A i \in 1..Len(challenges) :
          /\ challenges'[i].status # "cancelled"
          /\ challenges'[i].status # challenges[i].status =>
                /\ challenges[i].status = "active"
                /\ challenges'[i].status \in {"completed", "expired"}]_vars

\* ----------------------------------------------------------------------- C22
\* the drop rate as the claim takes it: 1 when the column is absent or holds no
\* number, the column otherwise, a 0 included
ClaimedDropRate(row) ==
    IF row.bot_drop_rate = NULL \/ row.bot_drop_rate = NaN THEN 1
    ELSE row.bot_drop_rate[1]

\* drop_rate x season_boost x rarity_penalty, in quarters
ClaimedWeight4(row, active) ==
    ClaimedDropRate(row)
      * (IF active # NULL /\ row.bot_season_int = active THEN 3 ELSE 2)
      * (IF row.bot_card_type = Some("rare") THEN 1 ELSE 2)

\* C22: for every bot of the challenge pool, a bot whose drop rate is 0
\* included, the weight used for the draw is drop_rate x season_boost x
\* rarity_penalty, where the drop rate is replaced by 1 only when absent or
\* invalid, the boost is 1.5 iff the affinity is the resolved season and the
\* penalty 0.5 iff the card type is rare; event draws use the drop rate alone.
C22_WeightComposition ==
    /\ Returned("challengeWeight") =>
          fn.out = Some(ClaimedWeight4(fn.args[1], fn.args[2]))
    /\ Returned("eventWeight") => fn.out = Some(ClaimedDropRate(fn.args[1]))

\* the composition holds for every drop rate but 0
C22_WeightCompositionButZero ==
    /\ (Returned("challengeWeight") /\ fn.args[1].bot_drop_rate # Some(0)) =>
          fn.out = Some(ClaimedWeight4(fn.args[1], fn.args[2]))
    /\ (Returned("eventWeight") /\ fn.args[1].bot_drop_rate # Some(0)) =>
          fn.out = Some(ClaimedDropRate(fn.args[1]))

\* a rare bot of the resolved season with drop rate 2: 2 x 1.5 x 0.5
C22_ButZeroWitness ==
    /\ Returned("challengeWeight")
    /\ fn.args[1] = WeightRow(Some(2), Some(1), "rare")
    /\ fn.args[2] = Some(1)
    /\ fn.out = Some(6)

\* ----------------------------------------------------------------------- C23
\* C23: when the total weight is > 0, pickWeighted never returns an item whose
\* coerced weight is 0, for every draw in [0, total), the draw 0 included, and
\* for every position of the zero-weight item in the list.
C23_NeverZeroWeight ==
    (Returned("pickWeighted") /\ SumPositive(fn.args[1])) =>
        /\ fn.out # NULL
        /\ CoercedWeights(fn.args[1])[fn.out[1]] # 0

\* it holds for the draws above 0, the weights being finite
C23_NeverZeroWeightAboveZero ==
    (/\ Returned("pickWeighted")
     /\ SumPositive(fn.args[1])
     /\ ~HasInfinite(fn.args[1])
     /\ fn.args[2] > 0) =>
        /\ fn.out # NULL
        /\ CoercedWeights(fn.args[1])[fn.out[1]] # 0

\* a draw above 0 has passed a zero-weight item at the head of the list
C23_AboveZeroWitness ==
    /\ Returned("pickWeighted")
    /\ fn.args[1] = <<Some(0), Some(2), Some(0)>>
    /\ fn.args[2] = 1
    /\ fn.out = Some(2)

\* ----------------------------------------------------------------------- C24
\* the rows of type evenement the current run has created
EventRowsInRun ==
    {i \in (batch.startLen + 1)..Len(challenges) : challenges[i].type = "evenement"}

\* C24: every challenge of type evenement created by the batch has a
\* target_distance_m exactly equal to the event bot's target_distance_m (no
\* jitter, no unit normalization), identical for all users assigned that event
\* in the run.
C24_EventTargetExact ==
    /\ \A i \in 1..Len(challenges) :
          challenges[i].type = "evenement" =>
              Some(challenges[i].target_distance_m)
                = BotRow(challenges[i].bot_id).bot_target_distance_m
    /\ batch.pc # "idle" =>
          \A i \in EventRowsInRun : \A j \in EventRowsInRun :
              challenges[i].target_distance_m = challenges[j].target_distance_m

\* a run has given both users the event of a bot whose distance is below 1000:
\* both rows hold that distance as it is
C24_Witness ==
    /\ batch.pc = "notify"
    /\ Cardinality(EventRowsInRun) = Len(Users)
    /\ \A i \in EventRowsInRun :
          /\ BotRow(challenges[i].bot_id).bot_target_distance_m[1] < 1000
          /\ challenges[i].target_distance_m
                = BotRow(challenges[i].bot_id).bot_target_distance_m[1]

\* ----------------------------------------------------------------------- C25
\* C25: every non-event challenge created by the batch has type defi or rare
\* (never objet), start_date = today, due_date = today + 3 days, and a target
\* within the 15 % jitter band of normalize(b), where b is the bot's
\* target_distance_m if present and otherwise its avg_distance_m.
C25_NonEventChallenge ==
    [][Len(challenges') > Len(challenges) =>
         LET c == challenges'[Len(challenges')]
             N == BaseMeters(BotRow(c.bot_id))
         IN c.type # "evenement" =>
              /\ c.type \in {"defi", "rare"}
              /\ BotRow(c.bot_id).bot_card_type = Some(c.type)
              /\ c.start_date = batch.today /\ batch.today = today
              /\ c.due_date = batch.today + 3
              /\ c.target_distance_m >= Round(85 * N, 100)
              /\ c.target_distance_m <= Round(115 * N, 100)]_vars

\* the rare bot, whose target_distance_m of 6 is in kilometers and whose
\* avg_distance_m is 5000, has been given with the lowest target of its band
C25_Witness ==
    /\ batch.pc = "notify"
    /\ challenges[batch.challengeId].bot_id = "br"
    /\ challenges[batch.challengeId].type = "rare"
    /\ BotRow("br").bot_target_distance_m = Some(6)
    /\ challenges[batch.challengeId].target_distance_m = 5100
    /\ challenges[batch.challengeId].due_date = today + 3

\* ----------------------------------------------------------------------- C26
\* the active challenges of user u that are due on the day of the run or later
ValidRowsOf(u) ==
    {i \in Ids(challenges) : /\ challenges[i].user_id = u
                             /\ challenges[i].status = "active"
                             /\ challenges[i].due_date >= batch.today}

\* the run has not looked at user u yet, or is at the head of the loop for u
NotYetSelected(u) ==
    \/ UserIdx(u) > batch.idx
    \/ UserIdx(u) = batch.idx /\ batch.pc = "loop"

\* C26: in a run without daily event bot, a user who holds an active challenge
\* with due_date >= today is left untouched by the batch: the challenge keeps
\* its status and fields, no challenge and no notification is written for the
\* user, and the step that handles the user writes no session, leaves the set of
\* used bots as it is and moves on to the next user.
C26_ValidHolderUntouched ==
    [][(batch.pc # "idle" /\ IsNull(batch.dailyEventBot) /\ batch' # batch) =>
         \A u \in UserSet :
            (ValidRowsOf(u) # {} /\ NotYetSelected(u)) =>
               /\ \A i \in ValidRowsOf(u) : challenges'[i] = challenges[i]
               /\ \A i \in Ids(challenges') \ Ids(challenges) :
                      challenges'[i].user_id # u
               /\ \A i \in Ids(notifications') \ Ids(notifications) :
                      notifications'[i].user_id # u
               /\ UserIdx(u) = batch.idx =>
                      /\ sessions' = sessions
                      /\ challenges' = challenges
                      /\ notifications' = notifications
                      /\ batch'.pc = "loop" /\ batch'.idx = batch.idx + 1
                      /\ batch'.usedBots = batch.usedBots]_vars

\* the run has passed its first user, whose challenge is due on the very day of
\* the run, and is giving a challenge to the second one
C26_Witness ==
    /\ batch.pc = "notify" /\ batch.idx = 2
    /\ IsNull(batch.dailyEventBot)
    /\ \E i \in ValidRowsOf(Users[1]) :
          /\ challenges[i].due_date = batch.today
          /\ i = batch.startActive[Users[1]]
    /\ CreatedInRun(Users[1]) = {}

\* ----------------------------------------------------------------------- C27
\* the pool the draw for the current user is made from
PoolNow == availableChallengeBots(batch.activeSeason, batch.usedBots)

\* the weights of the pool add up to zero: none of them is above zero
ZeroTotal(pool) ==
    /\ Len(pool) > 0
    /\ \A i \in 1..Len(pool) : ChallengeWeight4(pool[i], batch.activeSeason) <= 0

\* the run is about to draw for the current user and no bot can be drawn
NoBotToDraw ==
    /\ AtAssign
    /\ IsNull(batch.dailyEventBot)
    /\ Len(PoolNow) = 0 \/ ZeroTotal(PoolNow)

\* C27: when no bot can be drawn for a user (no daily event bot, and the
\* available pool is empty or its weights add up to zero), the batch writes no
\* challenge and no notification for that user, raises no error, and goes on
\* with the next user.
C27_NoBotNoChallenge ==
    [][(NoBotToDraw /\ batch' # batch) =>
          /\ challenges' = challenges
          /\ notifications' = notifications
          /\ sessions' = sessions
          /\ batch'.pc = "loop" /\ batch'.idx = batch.idx + 1
          /\ batch'.exitCode = -1]_vars

\* the run has passed its first user, for whom the only bot left had a negative
\* drop rate, without giving a challenge, and the run is not over
C27_Witness ==
    /\ batch.pc = "loop" /\ batch.idx = 2
    /\ IsNull(batch.dailyEventBot)
    /\ batch.startActive[Users[1]] = 0
    /\ ZeroTotal(AvailableFor(Users[1]))
    /\ ActiveIds(challenges, Users[1]) = {}
    /\ StartNotificationsInRun(Users[1], "challenge_start") = {}

\* the same with an empty pool: the only bot of the day has been given to the
\* first user, and the run has passed the second one
C27_WitnessEmpty ==
    /\ RunOver
    /\ IsNull(batch.dailyEventBot)
    /\ CreatedInRun(Users[1]) # {}
    /\ Len(AvailableFor(Users[2])) = 0
    /\ batch.startActive[Users[2]] = 0
    /\ ActiveIds(challenges, Users[2]) = {}
    /\ StartNotificationsInRun(Users[2], "challenge_start") = {}

\* ----------------------------------------------------------------------- C28
\* the bots the current run has a row for: the rows of the day it found, and the
\* non-event rows it has written
UsedByRows ==
    {challenges[i].bot_id :
        i \in {j \in Ids(challenges) :
                 \/ j <= batch.startLen /\ challenges[j].start_date = batch.today
                 \/ j > batch.startLen /\ challenges[j].type # "evenement"}}

\* the weights of the pool add up to more than zero: the draw gives a bot
PositiveTotal(pool) ==
    \E i \in 1..Len(pool) : ChallengeWeight4(pool[i], batch.activeSeason) > 0

\* C28: when the normalization or the jitter of the drawn bot's distance fails,
\* no challenge is persisted for the user, the bot is not added to the
\* used-today set (the set holds only bots that have a row of the day) and the
\* run goes on; no challenge row has a target_distance_m that is not positive.
C28_FailedDrawLeavesNoTrace ==
    /\ \A i \in Ids(challenges) : challenges[i].target_distance_m > 0
    /\ batch.pc # "idle" => batch.usedBots = UsedByRows

\* a run is over in which the draw for the first user gave a bot whose distance
\* fails (target_distance_m 0, avg_distance_m positive): the user has no
\* challenge, the bot is not in the used-today set, and the second user has been
\* given a challenge
C28_Witness ==
    /\ RunOver
    /\ IsNull(batch.dailyEventBot)
    /\ batch.startActive[Users[1]] = 0
    /\ PositiveTotal(AvailableFor(Users[1]))
    /\ CreatedInRun(Users[1]) = {}
    /\ CreatedInRun(Users[2]) # {}
    /\ \E i \in 1..Len(AvailableFor(Users[1])) :
          /\ AvailableFor(Users[1])[i].bot_target_distance_m = Some(0)
          /\ Number(AvailableFor(Users[1])[i].avg_distance_m) > 0
          /\ AvailableFor(Users[1])[i].id \notin batch.usedBots

\* ----------------------------------------------------------------------- C29
\* C29: a non-event bot is the opponent of at most one challenge per calendar
\* day: among the challenge rows with the same start_date and a type other than
\* evenement no two reference the same bot, also when the batch runs several
\* times that day.
C29_OneChallengePerBotAndDay ==
    \A i \in Ids(challenges) : \A j \in Ids(challenges) :
        (/\ i # j
         /\ challenges[i].start_date = challenges[j].start_date
         /\ challenges[i].type # "evenement"
         /\ challenges[j].type # "evenement")
            => challenges[i].bot_id # challenges[j].bot_id

\* the second run of a day has given a challenge, on a day for which an earlier
\* run had given one that is completed by now
C29_Witness ==
    /\ batch.runs = 2 /\ batch.pc # "idle"
    /\ \E i \in Ids(challenges) : \E j \in Ids(challenges) :
         /\ i <= batch.startLen /\ j > batch.startLen
         /\ challenges[i].start_date = batch.today
         /\ challenges[j].start_date = batch.today
         /\ challenges[i].type # "evenement"
         /\ challenges[j].type # "evenement"
         /\ challenges[i].status = "completed"

\* ----------------------------------------------------------------------- C30
\* the start notifications that reference challenge row i
StartNotificationsOf(i) ==
    {n \in Ids(notifications) : /\ notifications[n].type \in StartTypes
                                /\ notifications[n].challenge_id = i}

\* every start notification references a persisted challenge of the same user
\* and bot, and is an event_start exactly when the challenge is an evenement
StartNotificationsReferToRows ==
    \A n \in Ids(notifications) :
        notifications[n].type \in StartTypes =>
            LET i == notifications[n].challenge_id
            IN /\ i \in Ids(challenges)
               /\ challenges[i].user_id = notifications[n].user_id
               /\ challenges[i].bot_id = notifications[n].bot_id
               /\ (notifications[n].type = "event_start") = (challenges[i].type = "evenement")

\* in a run that has met no error, each challenge the run has created has one
\* start notification, but the one whose notification is the next step
CreatedRowsNotifiedOnce ==
    batch.pc # "idle" =>
        \A i \in Ids(challenges) :
            i > batch.startLen =>
                Cardinality(StartNotificationsOf(i)) =
                    (IF batch.pc = "notify" /\ i = batch.challengeId THEN 0 ELSE 1)

\* C30: the batch persists a challenge before its start notification, and the
\* session of the bot after the notification: every challenge_start or
\* event_start notification references a persisted challenge of the same user
\* (event_start exactly for type evenement), also when the run aborts midway, and
\* in a run without datastore error every challenge created has exactly one
\* such notification.
C30_ChallengeThenNotification ==
    [][/\ StartNotificationsReferToRows'
       /\ CreatedRowsNotifiedOnce'
       /\ (Len(sessions') > Len(sessions) /\ batch' # batch) =>
              StartNotificationsOf(batch.challengeId) # {}]_vars

\* a run has aborted at its second user, between the INSERT of the challenge and
\* the notification: the first user's notification references the first user's
\* challenge, the second user's challenge has none
C30_Witness ==
    /\ batch.pc = "idle" /\ batch.exitCode = 1 /\ batch.failedIdx = 2
    /\ \E i \in Ids(challenges) :
          /\ challenges[i].user_id = Users[1] /\ challenges[i].start_date = today
          /\ Cardinality(StartNotificationsOf(i)) = 1
    /\ \E j \in Ids(challenges) :
          /\ challenges[j].user_id = Users[2] /\ challenges[j].start_date = today
          /\ StartNotificationsOf(j) = {}

\* a run without error is over on the day of the event: each user has an
\* evenement challenge and one event_start notification for it
C30_WitnessEvent ==
    /\ RunOver /\ ~IsNull(batch.dailyEventBot)
    /\ \A u \in UserSet : \E i \in CreatedInRun(u) :
          \E n \in StartNotificationsOf(i) : notifications[n].type = "event_start"

\* ----------------------------------------------------------------------- C31
\* notification n is a start notification of user u
IsStartOf(rows, n, u) == rows[n].user_id = u /\ rows[n].type \in StartTypes

\* C31: immediately after a successful completion the user has no unread
\* notification of type challenge_start or event_start, and the read state of
\* the notifications of every other type and of every other user is unchanged.
C31_StartNotificationsRead ==
    [][\A p \in Procs :
         (req[p].pc = "markRead" /\ req'[p].pc # "markRead") =>
            /\ Len(notifications') = Len(notifications)
            /\ \A n \in Ids(notifications) :
                  IF IsStartOf(notifications, n, req[p].userId)
                  THEN notifications'[n] = [notifications[n] EXCEPT !.read = TRUE]
                  ELSE notifications'[n] = notifications[n]]_vars

\* a completion has marked the start notification of its user: the user's success
\* notification and the other user's start notification are still unread
C31_Witness ==
    \E u \in UserSet :
        /\ \E n \in Ids(notifications) :
              IsStartOf(notifications, n, u) /\ notifications[n].read
        /\ \E n \in Ids(notifications) :
              /\ notifications[n].user_id = u
              /\ notifications[n].type = "challenge_success"
              /\ ~notifications[n].read
        /\ \E n \in Ids(notifications) :
              /\ notifications[n].user_id # u
              /\ notifications[n].type \in StartTypes
              /\ ~notifications[n].read
        /\ \A p \in Procs : req[p].pc = "idle"

\* ----------------------------------------------------------------------- C32
\* the active challenges of human users that are due before the given day
OverdueActive(day) ==
    {i \in Ids(challenges) : /\ challenges[i].user_id \in UserSet
                             /\ challenges[i].status = "active"
                             /\ challenges[i].due_date < day}

\* C32: when a batch run has gone through every user without error, no human
\* user holds an active challenge with due_date < today: every such challenge
\* the run found is expired (one that a request completed before the run came
\* to it is completed, with its session).
C32_NoOverdueLeft ==
    RunOver =>
        /\ OverdueActive(batch.today) = {}
        /\ \A u \in UserSet :
              HeldOverdueAtStart(u) =>
                 \/ challenges[batch.startActive[u]].status = "expired"
                 \/ /\ challenges[batch.startActive[u]].status = "completed"
                    /\ challenges[batch.startActive[u]].completed_session_id # NULL

\* a run is over that found an overdue challenge for each of the two users
C32_Witness ==
    /\ RunOver
    /\ \A u \in UserSet :
          /\ HeldOverdueAtStart(u)
          /\ challenges[batch.startActive[u]].status = "expired"
          /\ challenges[batch.startActive[u]].completed_session_id = NULL

\* ----------------------------------------------------------------------- C33
\* the challenges whose completed_session is session s
CompletedWith(rows, s) ==
    {i \in 1..Len(rows) : rows[i].completed_session_id = Some(s)}

\* the session of request p meets the most recent active challenge of its user:
\* its date is in [start_date, due_date] and its distance is >= the target
MeetsChallenge(p, i) ==
    /\ i # 0
    /\ req[p].sessionDate >= challenges[i].start_date
    /\ req[p].sessionDate <= challenges[i].due_date
    /\ req[p].distance >= challenges[i].target_distance_m

\* C33: with no concurrent writer, a session creation whose date lies in
\* [start_date, due_date] (bounds included) and whose distance is >= the target
\* (equality included) of the user's most recent active challenge transitions
\* that challenge to completed, with that session, and a single session
\* completes at most one challenge.
C33_QualifyingSessionCompletes ==
    [][\A p \in Procs :
         LET i == MostRecentActive(challenges, req[p].userId)
         IN /\ (req[p].pc = "getActive" /\ req'[p] # req[p] /\ MeetsChallenge(p, i)) =>
                 /\ req'[p].pc = "update"
                 /\ req'[p].challenge # NULL
                 /\ req'[p].challenge[1].id = i
            /\ (req[p].pc = "update" /\ req'[p] # req[p]) =>
                 /\ req[p].challenge[1].id = i
                 /\ challenges'[i].status = "completed"
                 /\ challenges'[i].completed_session_id = Some(req[p].sessionId)
            /\ \A s \in Ids(sessions') :
                 Cardinality(CompletedWith(challenges', s)) <= 1]_vars

\* an event challenge that starts and ends on one day is completed by a session
\* of that day whose distance is the target itself
C33_Witness ==
    \E i \in Ids(challenges) :
        /\ challenges[i].status = "completed"
        /\ challenges[i].start_date = challenges[i].due_date
        /\ challenges[i].completed_session_id # NULL
        /\ LET s == challenges[i].completed_session_id[1]
           IN /\ sessions[s].date = challenges[i].due_date
              /\ sessions[s].distance = challenges[i].target_distance_m
              /\ sessions[s].user_id = challenges[i].user_id

\* ----------------------------------------------------------------------- C34
\* the descriptive fields of challenge row i, as the response carries them
DescriptiveFields(i) ==
    [id |-> i, bot_id |-> challenges[i].bot_id, type |-> challenges[i].type,
     target_distance_m |-> challenges[i].target_distance_m,
     due_date |-> challenges[i].due_date]

\* C34: the response of a session creation reports challenge_completed = true,
\* with the descriptive fields of the challenge, if and only if this very
\* request made the transition active -> completed (the challenge carries its
\* session); a request that lost the conditional update or did not qualify
\* reports false and a null challenge.
C34_ResponseReportsCompletion ==
    \A r \in responses :
        r.status = 201 =>
            IF CompletedWith(challenges, r.id) # {}
            THEN /\ r.body[1].challenge_completed
                 /\ \E i \in CompletedWith(challenges, r.id) :
                       r.body[1].challenge = Some(DescriptiveFields(i))
            ELSE /\ ~r.body[1].challenge_completed
                 /\ r.body[1].challenge = NULL

\* two sessions of one user with the same date and distance have been answered:
\* one with the completed challenge, the other with false and null
C34_Witness ==
    \E r1 \in responses : \E r2 \in responses :
        /\ r1.body[1].challenge_completed
        /\ r1.body[1].challenge # NULL
        /\ ~r2.body[1].challenge_completed
        /\ r2.body[1].challenge = NULL
        /\ sessions[r1.id].user_id = sessions[r2.id].user_id
        /\ sessions[r1.id].date = sessions[r2.id].date
        /\ sessions[r1.id].distance = sessions[r2.id].distance

\* a request has passed the checks for a challenge and has lost the conditional
\* update to the request of another session: it goes on with a null result
C34_WitnessLostUpdate ==
    \E p \in Procs :
        /\ req[p].pc = "grant"
        /\ req[p].completed = NULL
        /\ req[p].challenge # NULL
        /\ req[p].sessionDate >= req[p].challenge[1].start_date
        /\ req[p].sessionDate <= req[p].challenge[1].due_date
        /\ req[p].distance >= req[p].challenge[1].target_distance_m
        /\ \E s \in Ids(sessions) :
              s # req[p].sessionId /\ req[p].challenge[1].id \in CompletedWith(challenges, s)

\* ----------------------------------------------------------------------- C35
\* C35: a challenge is never transitioned to completed by a session-creation
\* request that is processed on a calendar day later than the challenge's
\* due_date, whatever date the session carries and whether or not the daily
\* batch has run that day.
C35_NoCompletionAfterDueDate ==
    [][\A i \in Ids(challenges) :
         (challenges[i].status # "completed" /\ challenges'[i].status = "completed") =>
            today <= challenges[i].due_date]_vars

\* ----------------------------------------------------------------------- C36
\* a session row is there: its id was given out and the row was not deleted
SessionExists(id) == id \in Ids(sessions) /\ sessions[id] # NoRow

\* the session row a completed challenge points at still justifies it
JustifiedBySession(c) ==
    /\ ~IsNull(c.completed_session_id)
    /\ SessionExists(c.completed_session_id[1])
    /\ LET s == sessions[c.completed_session_id[1]]
       IN /\ s.user_id = c.user_id
          /\ s.distance >= c.target_distance_m
          /\ isDateBetween(s.date, c.start_date, c.due_date)

\* C36: after any sequence of session creations, updates and deletions, the
\* completed_session_id of every completed challenge refers to an existing
\* session of the same user whose distance is at least the target and whose
\* date lies within [start_date, due_date].
C36_CompletedSessionJustifies ==
    \A i \in Ids(challenges) :
        challenges[i].status = "completed" => JustifiedBySession(challenges[i])

\* the part of C36 that holds: at the moment a challenge becomes completed, the
\* session it points at exists, is the user's, reaches the target and is dated
\* within the window
C36_JustifiedWhenCompleted ==
    [][\A i \in Ids(challenges) :
         (challenges[i].status # "completed" /\ challenges'[i].status = "completed") =>
            LET c == challenges'[i]
            IN /\ ~IsNull(c.completed_session_id)
               /\ c.completed_session_id[1] \in Ids(sessions')
               /\ LET s == sessions'[c.completed_session_id[1]]
                  IN /\ s.user_id = c.user_id
                     /\ s.distance >= c.target_distance_m
                     /\ isDateBetween(s.date, c.start_date, c.due_date)]_vars

\* a completed challenge whose session was deleted afterwards
C36_DeletedSession ==
    \E i \in Ids(challenges) :
        /\ challenges[i].status = "completed"
        /\ ~IsNull(challenges[i].completed_session_id)
        /\ ~SessionExists(challenges[i].completed_session_id[1])

\* ----------------------------------------------------------------------- C37
\* C37: every row of user_card_results, written by the completion of a
\* challenge or by the grant of an object card, carries a distance_m that is at
\* least its target_distance_m.
C37_DistanceReachesTarget ==
    \A i \in Ids(cardResults) :
        cardResults[i].distance_m >= cardResults[i].target_distance_m

\* both writers have written a row, each with a distance equal to the target
C37_Witness ==
    /\ \E i \in Ids(cardResults) :
          /\ cardResults[i].type # "objet"
          /\ cardResults[i].distance_m = cardResults[i].target_distance_m
    /\ \E i \in Ids(cardResults) :
          /\ cardResults[i].type = "objet"
          /\ cardResults[i].distance_m = cardResults[i].target_distance_m

\* ----------------------------------------------------------------------- C38
\* the requests a step answers with a failure
FailedNow(p) ==
    /\ req[p].pc # "idle"
    /\ req'[p].pc = "idle"
    /\ [id |-> req[p].sessionId, status |-> 500, body |-> NULL] \in responses'

\* the challenges a session has completed
StillCompletedBy(rows, sessionId) ==
    {i \in 1..Len(rows) : /\ rows[i].status = "completed"
                          /\ rows[i].completed_session_id = Some(sessionId)}

\* C38: when a query fails inside handleChallengeCompletion or inside
\* handleObjectCards, the request is answered with a failure and with nothing
\* else, and what it had written stays: its session row is still there,
\* unchanged, and the challenge it had completed is still completed (no
\* rollback); the rows the failure prevented are simply missing.
C38_FailureKeepsWrites ==
    [][\A p \in Procs :
         FailedNow(p) =>
            /\ \A r \in responses' : r.id = req[p].sessionId => r.status = 500
            /\ req[p].sessionId \in Ids(sessions')
            /\ sessions'[req[p].sessionId] = sessions[req[p].sessionId]
            /\ sessions'[req[p].sessionId].user_id = req[p].userId
            /\ StillCompletedBy(challenges', req[p].sessionId)
                 = StillCompletedBy(challenges, req[p].sessionId)
            /\ cardResults' = cardResults
            /\ notifications' = notifications]_vars

\* a request was answered with a failure, the challenge it completed is
\* completed, and the card result of that completion was never written
C38_Witness ==
    \E r \in responses :
        /\ r.status = 500
        /\ SessionExists(r.id)
        /\ StillCompletedBy(challenges, r.id) # {}
        /\ \A i \in Ids(cardResults) : cardResults[i].session_id # r.id

\* a request failed inside handleObjectCards: it is answered with a failure
\* although its challenge is completed and has its card result
C38_WitnessGrant ==
    \E r \in responses :
        /\ r.status = 500
        /\ StillCompletedBy(challenges, r.id) # {}
        /\ \E i \in Ids(cardResults) :
              cardResults[i].session_id = r.id /\ cardResults[i].type # "objet"
        /\ \E i \in Ids(notifications) :
              notifications[i].type = "challenge_success"
====
